---- MODULE Spec2Model ----
(***************************************************************************)
(* Offline Ethereum transaction toolkit: tx_builder writes the unsigned    *)
(* preimage of a legacy (EIP-155) or EIP-1559 transaction as hex text,     *)
(* tx_signer reads such text, parses it (parse_unsigned), rebuilds a       *)
(* typed transaction (unsigned_to_typed), signs it and writes the signed   *)
(* bytes.  Bytes are naturals 0..255, byte strings are sequences of bytes, *)
(* U256 / U64 / Address are fixed-width big-endian byte arrays, and the    *)
(* RLP codec works on the bytes themselves.                                *)
(***************************************************************************)
EXTENDS Integers, Sequences, FiniteSets, TLC

(***************************************************************************)
(* Widths of the fixed-size types (bytes).                                 *)
(***************************************************************************)
U256Bytes == 32
U64Bytes == 8
AddressBytes == 20

(***************************************************************************)
(* State.                                                                  *)
(***************************************************************************)
VARIABLES
    pc,              \* position in the builder-then-signer run
    intent,          \* the fields tx_builder was given (NoIntent: none)
    shape,           \* the description of an externally supplied file
    file,            \* the text of the transaction file a tool reads
    key,             \* the signer's private key (0: not a valid key)
    unsigned_bytes,  \* main's unsigned_bytes
    utx,             \* the result of parse_unsigned
    typed,           \* the result of unsigned_to_typed
    signing_payload, \* the bytes whose hash is signed
    sig,             \* main's sig: v, r, s (and the recovery id behind v)
    signed_raw,      \* main's signed_raw
    output,          \* the text of the signed transaction file
    insp_pc,         \* tx_inspector: position in main
    rlp_bytes,       \* tx_inspector: main's rlp_bytes
    attempts,        \* tx_inspector: the decodings tried so far, in order
    report,          \* tx_inspector: what main printed and returned
    bc_pc,           \* tx_broadcaster: position in main
    signed_tx,       \* tx_broadcaster: main's signed_tx
    request,         \* tx_broadcaster: the JSON body posted
    response,        \* tx_broadcaster: what came back from the RPC endpoint
    bc_result,       \* tx_broadcaster: the result of broadcast_transaction
    qr_pc,           \* decode_qr_from_file: position in the function
    image,           \* decode_qr_from_file: the file at the path
    strategies,      \* decode_qr_from_file: the decoders run so far, in order
    qr_result        \* decode_qr_from_file: the value returned

signer_vars == <<pc, intent, shape, file, key, unsigned_bytes, utx, typed,
                 signing_payload, sig, signed_raw, output>>

inspector_vars == <<insp_pc, rlp_bytes, attempts, report>>

broadcaster_vars == <<bc_pc, signed_tx, request, response, bc_result>>

qr_vars == <<qr_pc, image, strategies, qr_result>>

\* The tools other than tx_builder and tx_signer.
tool_vars == <<inspector_vars, broadcaster_vars, qr_vars>>

vars == <<signer_vars, tool_vars>>

(***************************************************************************)
(* Byte-string helpers.                                                    *)
(***************************************************************************)
\* Throughout, CHOOSE r_ \in {e(x) : x \in {v}} : TRUE is "let x = v; e(x)":
\* the value v is computed once and then used.

Zeros(n) == [i \in 1..n |-> 0]

Drop(bs, n) == IF n >= Len(bs) THEN <<>> ELSE SubSeq(bs, n + 1, Len(bs))

Take(bs, n) == IF n >= Len(bs) THEN bs ELSE SubSeq(bs, 1, n)

\* bytes[leading_empty_bytes..]: the big-endian array without its leading
\* zero bytes (the integer zero becomes the empty string).
StripZeros(bs) ==
    CHOOSE r_ \in
        {IF \A i \in 1..Len(b) : b[i] = 0 THEN <<>>
         ELSE SubSeq(b, CHOOSE i \in 1..Len(b) :
                            b[i] # 0 /\ \A j \in 1..(i - 1) : b[j] = 0,
                     Len(b))
             : b \in {bs}} : TRUE

\* from_big_endian / to_be_bytes: a byte string of at most w bytes as the
\* w-byte array.
PadLeft(bs, w) == Zeros(w - Len(bs)) \o bs

\* Minimal big-endian bytes of a natural below 2^24 (lengths, test values).
NatToBE(n) ==
    IF n = 0 THEN <<>>
    ELSE IF n < 256 THEN <<n>>
    ELSE IF n < 65536 THEN <<n \div 256, n % 256>>
    ELSE <<n \div 65536, (n \div 256) % 256, n % 256>>

\* Value of a big-endian byte string of at most 3 bytes.
BEToNat(bs) ==
    IF Len(bs) = 0 THEN 0
    ELSE IF Len(bs) = 1 THEN bs[1]
    ELSE IF Len(bs) = 2 THEN bs[1] * 256 + bs[2]
    ELSE bs[1] * 65536 + bs[2] * 256 + bs[3]

RECURSIVE Concat(_)
\* The elements of a sequence of byte strings, one after another.
Concat(ss) ==
    CHOOSE r_ \in
        {IF Len(s) = 0 THEN <<>>
         ELSE IF Len(s) = 1 THEN s[1]
         ELSE Concat(SubSeq(s, 1, Len(s) \div 2))
                  \o Concat(SubSeq(s, (Len(s) \div 2) + 1, Len(s)))
             : s \in {ss}} : TRUE

(***************************************************************************)
(* Unbounded natural-number arithmetic on big-endian digit strings: the    *)
(* mathematical sum, against which fixed-width arithmetic is compared.     *)
(***************************************************************************)
\* The carry into digit i of a + b + c (digit 0 is the carry-out): some
\* lower digit pair generates a carry that every pair in between passes on,
\* or the carry-in c passes through all of them.
CarryInto(a, b, c, i) ==
    \/ \E j \in (i + 1)..Len(a) :
           /\ a[j] + b[j] >= 256
           /\ \A k \in (i + 1)..(j - 1) : a[k] + b[k] = 255
    \/ c = 1 /\ \A k \in (i + 1)..Len(a) : a[k] + b[k] = 255

\* a, b of equal length, c in {0, 1}; the sum with its carry-out as the
\* leading digit.
AddCarry(a, b, c) ==
    CHOOSE r_ \in
        {[i \in 1..(Len(x[1]) + 1) |->
             IF i = 1 THEN (IF CarryInto(x[1], x[2], x[3], 0) THEN 1 ELSE 0)
             ELSE (x[1][i - 1] + x[2][i - 1]
                      + (IF CarryInto(x[1], x[2], x[3], i - 1) THEN 1 ELSE 0)) % 256]
             : x \in {<<a, b, c>>}} : TRUE

BigAdd(a, b) ==
    LET w == IF Len(a) > Len(b) THEN Len(a) ELSE Len(b)
    IN  StripZeros(AddCarry(PadLeft(a, w), PadLeft(b, w), 0))

(***************************************************************************)
(* u64 arithmetic.  An addition that does not fit in 64 bits panics when   *)
(* the build has overflow checks (debug profile) and wraps otherwise       *)
(* (release profile).                                                      *)
(***************************************************************************)
U64Add(a, b) ==
    CHOOSE r_ \in
        {[overflow |-> full[1] # 0, wrapped |-> Tail(full)]
             : full \in {AddCarry(a, b, 0)}} : TRUE

(***************************************************************************)
(* hex::encode / hex::decode over text (a sequence of one-character        *)
(* strings).                                                               *)
(***************************************************************************)
HexDigits == <<"0", "1", "2", "3", "4", "5", "6", "7",
               "8", "9", "a", "b", "c", "d", "e", "f">>

HexEncode(bs) ==
    [i \in 1..(2 * Len(bs)) |->
        IF i % 2 = 1 THEN HexDigits[(bs[(i + 1) \div 2] \div 16) + 1]
        ELSE HexDigits[(bs[i \div 2] % 16) + 1]]

\* Value of one hex character, -1 when it is none (upper case is accepted).
HexVal(c) ==
    CASE c = "0" -> 0 [] c = "1" -> 1 [] c = "2" -> 2 [] c = "3" -> 3
      [] c = "4" -> 4 [] c = "5" -> 5 [] c = "6" -> 6 [] c = "7" -> 7
      [] c = "8" -> 8 [] c = "9" -> 9
      [] c \in {"a", "A"} -> 10 [] c \in {"b", "B"} -> 11
      [] c \in {"c", "C"} -> 12 [] c \in {"d", "D"} -> 13
      [] c \in {"e", "E"} -> 14 [] c \in {"f", "F"} -> 15
      [] OTHER -> -1

HexPairs(t) ==
    [i \in 1..(Len(t) \div 2) |-> HexVal(t[2 * i - 1]) * 16 + HexVal(t[2 * i])]

HexDecode(t) ==
    IF Len(t) % 2 # 0 THEN [ok |-> FALSE, err |-> "OddLength"]
    ELSE IF \E i \in 1..Len(t) : HexVal(t[i]) < 0
         THEN [ok |-> FALSE, err |-> "InvalidHexCharacter"]
    ELSE [ok |-> TRUE, v |-> HexPairs(t)]

IsSpace(c) == c \in {" ", "\n"}

RECURSIVE TrimStart(_)
TrimStart(t) ==
    IF t # <<>> /\ IsSpace(Head(t)) THEN TrimStart(Tail(t)) ELSE t

RECURSIVE TrimEnd(_)
TrimEnd(t) ==
    IF t # <<>> /\ IsSpace(t[Len(t)]) THEN TrimEnd(SubSeq(t, 1, Len(t) - 1)) ELSE t

\* str::trim
Trim(t) == TrimEnd(TrimStart(t))

RECURSIVE TrimStartMatches0x(_)
\* str::trim_start_matches("0x"): removes every repetition of the prefix.
TrimStartMatches0x(t) ==
    IF Len(t) >= 2 /\ t[1] = "0" /\ t[2] = "x"
    THEN TrimStartMatches0x(Drop(t, 2)) ELSE t

(***************************************************************************)
(* RLP encoding (rlp::RlpStream).                                          *)
(***************************************************************************)
Err(e) == [ok |-> FALSE, err |-> e]

Ok(x) == [ok |-> TRUE, v |-> x]

\* Encoder::encode_value: one byte string.
EncodeValue(value) ==
    CHOOSE r_ \in
        {IF Len(val) = 0 THEN <<128>>
         ELSE IF Len(val) = 1 /\ val[1] < 128 THEN val
         ELSE IF Len(val) <= 55 THEN <<128 + Len(val)>> \o val
         ELSE LET lb == NatToBE(Len(val))
              IN  <<183 + Len(lb)>> \o lb \o val
             : val \in {value}} : TRUE

\* RlpStream::new_list(n) followed by n appended items and out(): the list
\* header over the appended (encoded) items.
RlpList(appended) ==
    CHOOSE r_ \in
        {IF Len(payload) <= 55 THEN <<192 + Len(payload)>> \o payload
         ELSE LET lb == NatToBE(Len(payload))
              IN  <<247 + Len(lb)>> \o lb \o payload
             : payload \in {appended}} : TRUE

\* Encodable for U256 / U64 / u64: the array without leading zero bytes.
AppendUint(x) == EncodeValue(StripZeros(x))

\* Encodable for Address (H160): all 20 bytes.
AppendAddress(a) == EncodeValue(a)

\* Encodable for &[u8].
AppendBytes(d) == EncodeValue(d)

\* A u8 always written as its one byte.
AppendU8_asByte(b) == EncodeValue(<<b>>)

\* Encodable for u8: zero is the empty string.
AppendU8(b) == IF b # 0 THEN EncodeValue(<<b>>) ELSE EncodeValue(<<>>)

\* The empty byte string where the empty list belongs.
EmptyList_asString == EncodeValue(<<>>)

\* RlpStream::new_list(0).out(): the empty list.
EmptyList == RlpList(<<>>)

(***************************************************************************)
(* RLP decoding (rlp::Rlp).                                                *)
(***************************************************************************)
\* decode_usize: a length of length; lengths of three or more bytes are
\* beyond every buffer and are represented by Huge.
Huge == 256 * 256 * 256

DecodeUsize(bs) ==
    IF Len(bs) > 8 THEN Err("RlpIsTooBig")
    ELSE IF bs[1] = 0 THEN Err("RlpInvalidIndirection")
    ELSE IF Len(bs) > 2 THEN Ok(Huge)
    ELSE Ok(BEToNat(bs))

CalculatePayloadInfo(hb, len_of_len) ==
    LET header_len == 1 + len_of_len
    IN  IF Len(hb) < 2 THEN Err("RlpIsTooShort")
        ELSE IF hb[2] = 0 THEN Err("RlpDataLenWithZeroPrefix")
        ELSE IF Len(hb) < header_len THEN Err("RlpIsTooShort")
        ELSE CHOOSE r_ \in
                 {IF ~value_len.ok THEN value_len
                  ELSE IF value_len.v <= 55 THEN Err("RlpInvalidIndirection")
                  ELSE Ok([header_len |-> header_len, value_len |-> value_len.v])
                      : value_len \in {DecodeUsize(SubSeq(hb, 2, header_len))}} : TRUE

\* PayloadInfo::from
PayloadInfoFrom(hb) ==
    IF hb = <<>> THEN Err("RlpIsTooShort")
    ELSE LET l == hb[1]
         IN  IF l <= 127 THEN Ok([header_len |-> 0, value_len |-> 1])
             ELSE IF l <= 183 THEN Ok([header_len |-> 1, value_len |-> l - 128])
             ELSE IF l <= 191 THEN CalculatePayloadInfo(hb, l - 183)
             ELSE IF l <= 247 THEN Ok([header_len |-> 1, value_len |-> l - 192])
             ELSE CalculatePayloadInfo(hb, l - 247)

\* BasicDecoder::payload_info
PayloadInfo(bytes) ==
    CHOOSE r_ \in
        {IF ~item.ok THEN item
         ELSE IF item.v.header_len + item.v.value_len <= Len(bytes) THEN item
         ELSE Err("RlpIsTooShort")
             : item \in {PayloadInfoFrom(bytes)}} : TRUE

\* Rlp::is_list
IsList(bytes) == bytes # <<>> /\ bytes[1] >= 192

\* Rlp::is_data
IsData(bytes) == bytes # <<>> /\ bytes[1] < 192

\* Rlp::consume_list_payload
ConsumeListPayload(bytes) ==
    CHOOSE r_ \in
        {IF ~item.ok THEN item
         ELSE Ok(SubSeq(bytes, item.v.header_len + 1,
                        item.v.header_len + item.v.value_len))
             : item \in {PayloadInfo(bytes)}} : TRUE

\* One step of Rlp::consume_items: skip one whole item.
ConsumeItem(bytes) ==
    CHOOSE r_ \in
        {IF ~i.ok THEN i ELSE Ok(Drop(bytes, i.v.header_len + i.v.value_len))
             : i \in {PayloadInfo(bytes)}} : TRUE

RECURSIVE ConsumeItems(_, _)
\* Rlp::consume_items: skip `items` whole items, one after another (the
\* first half of them, then the rest).
ConsumeItems(bytes, items) ==
    IF items = 0 THEN Ok(bytes)
    ELSE IF items = 1 THEN ConsumeItem(bytes)
    ELSE CHOOSE r_ \in
             {IF ~half.ok THEN half
              ELSE ConsumeItems(half.v, items - (items \div 2))
                  : half \in {ConsumeItems(bytes, items \div 2)}} : TRUE

\* The item in front of what is left of a list payload.
FirstItem(rest) ==
    CHOOSE r_ \in
        {IF ~found.ok THEN found
         ELSE Ok(Take(rest, found.v.header_len + found.v.value_len))
             : found \in {PayloadInfo(rest)}} : TRUE

\* Rlp::at: the bytes of the index-th item of a list.
At(bytes, index) ==
    IF ~IsList(bytes) THEN Err("RlpExpectedToBeList")
    ELSE CHOOSE r_ \in
             {IF ~payload.ok THEN payload
              ELSE CHOOSE q_ \in
                       {IF ~rest.ok THEN rest ELSE FirstItem(rest.v)
                            : rest \in {ConsumeItems(payload.v, index)}} : TRUE
                  : payload \in {ConsumeListPayload(bytes)}} : TRUE

\* RlpIterator: at(i), at(i + 1), ... until the first failure (no list has
\* more items than bytes).
CountFrom(bytes, i) ==
    CHOOSE n \in i..Len(bytes) :
        /\ ~At(bytes, n).ok
        /\ \A j \in i..(n - 1) : At(bytes, j).ok

\* Rlp::item_count
ItemCount(bytes) ==
    IF IsList(bytes) THEN Ok(CountFrom(bytes, 0)) ELSE Err("RlpExpectedToBeList")

\* BasicDecoder::decode_value: the content of a byte-string item.
DecodeValue(bytes) ==
    IF bytes = <<>> THEN Err("RlpIsTooShort")
    ELSE LET l == bytes[1]
         IN  IF l <= 127 THEN Ok(<<l>>)
             ELSE IF l <= 183 THEN
                 LET last_index_of == 1 + l - 128
                 IN  IF Len(bytes) < last_index_of
                     THEN Err("RlpInconsistentLengthAndData")
                     ELSE IF l = 129 /\ bytes[2] < 128
                     THEN Err("RlpInvalidIndirection")
                     ELSE Ok(SubSeq(bytes, 2, last_index_of))
             ELSE IF l <= 191 THEN
                 LET len_of_len == l - 183
                     begin_of_value == 1 + len_of_len
                 IN  IF Len(bytes) < begin_of_value
                     THEN Err("RlpInconsistentLengthAndData")
                     ELSE CHOOSE r_ \in
                              {IF ~len.ok THEN len
                               ELSE IF Len(bytes) < begin_of_value + len.v
                               THEN Err("RlpInconsistentLengthAndData")
                               ELSE Ok(SubSeq(bytes, begin_of_value + 1,
                                              begin_of_value + len.v))
                                   : len \in {DecodeUsize(SubSeq(bytes, 2, begin_of_value))}}
                              : TRUE
             ELSE Err("RlpExpectedToBeData")

\* Decodable for U256: no leading zero byte, at most 32 bytes.
DecodeU256(item) ==
    CHOOSE r_ \in
        {IF ~d.ok THEN d
         ELSE IF d.v # <<>> /\ d.v[1] = 0 THEN Err("RlpInvalidIndirection")
         ELSE IF Len(d.v) <= U256Bytes THEN Ok(PadLeft(d.v, U256Bytes))
         ELSE Err("RlpIsTooBig")
             : d \in {DecodeValue(item)}} : TRUE

\* Decodable for Address (H160): exactly 20 bytes.
DecodeAddress(item) ==
    CHOOSE r_ \in
        {IF ~d.ok THEN d
         ELSE IF Len(d.v) < AddressBytes THEN Err("RlpIsTooShort")
         ELSE IF Len(d.v) > AddressBytes THEN Err("RlpIsTooBig")
         ELSE Ok(d.v)
             : d \in {DecodeValue(item)}} : TRUE

\* Decodable for Vec<u8>
DecodeVec(item) == DecodeValue(item)

\* Rlp::val_at::<T>
ValAt(bytes, index, Decode(_)) ==
    CHOOSE r_ \in
        {IF ~a.ok THEN a ELSE Decode(a.v) : a \in {At(bytes, index)}} : TRUE

(***************************************************************************)
(* tx_builder: the two preimage builders.                                  *)
(***************************************************************************)
\* build_legacy_preimage:
\* RLP([nonce, gasPrice, gasLimit, to, value, data, chainId, 0, 0])
build_legacy_preimage(to, value_wei, gas_price_wei, gas_limit, nonce, chain_id, data) ==
    RlpList(AppendUint(nonce) \o AppendUint(gas_price_wei) \o AppendUint(gas_limit)
                \o AppendAddress(to) \o AppendUint(value_wei) \o AppendBytes(data)
                \o AppendUint(chain_id) \o AppendU8(0) \o AppendU8(0))

\* The fee-market payload with nonce and chainId in each other's place.
build_eip1559_nonce_first(chain_id, nonce, max_priority_fee, max_fee, gas_limit, to, value, data) ==
    <<2>> \o RlpList(AppendUint(nonce) \o AppendUint(chain_id)
                          \o AppendUint(max_priority_fee) \o AppendUint(max_fee)
                          \o AppendUint(gas_limit) \o AppendAddress(to)
                          \o AppendUint(value) \o AppendBytes(data) \o EmptyList)

\* build_eip1559_signing_payload: 0x02 || RLP([chainId, nonce,
\* maxPriorityFeePerGas, maxFeePerGas, gasLimit, to, value, data, accessList])
build_eip1559_signing_payload(chain_id, nonce, max_priority_fee, max_fee, gas_limit, to, value, data) ==
    LET encoded == RlpList(AppendUint(chain_id) \o AppendUint(nonce)
                               \o AppendUint(max_priority_fee) \o AppendUint(max_fee)
                               \o AppendUint(gas_limit) \o AppendAddress(to)
                               \o AppendUint(value) \o AppendBytes(data) \o EmptyList)
    IN  <<2>> \o encoded

\* The builder applied to an intent record (main's if args.eip1559 / else).
BuildIntent(f) ==
    IF f.tag = "Eip1559"
    THEN build_eip1559_signing_payload(f.chain_id, f.nonce, f.max_priority_fee,
                                       f.max_fee, f.gas_limit, f.to, f.value, f.data)
    ELSE build_legacy_preimage(f.to, f.value, f.gas_price, f.gas_limit, f.nonce,
                               f.chain_id, f.data)

(***************************************************************************)
(* tx_signer: parse_unsigned.                                              *)
(***************************************************************************)
\* The message of the legacy branch's item-count error.
LegacyCountMsg ==
    "Legacy preimage must be RLP list of 9 items: [nonce, gasPrice, gasLimit, to, value, data, chainId, 0, 0]"

IsZeroU256(x) == x = Zeros(U256Bytes)

\* The count check with nine as a lower limit only.
NineItems_atLeast(r) == IsList(r) /\ ItemCount(r).v >= 9

\* !r.is_list() || r.item_count()? != 9, negated.
NineItems(r) == IsList(r) /\ ItemCount(r).v = 9

\* The access-list check without its item count.
AccessListEmpty_anyList(access_list_rlp) == IsList(access_list_rlp)

\* access_list_rlp.is_list() && access_list_rlp.item_count()? == 0
AccessListEmpty(access_list_rlp) ==
    IsList(access_list_rlp) /\ ItemCount(access_list_rlp).v = 0

\* The placeholder check on the first placeholder alone.
PlaceholdersZero_firstOnly(r0, s0) == IsZeroU256(r0)

\* r0.is_zero() && s0.is_zero()
PlaceholdersZero(r0, s0) == IsZeroU256(r0) /\ IsZeroU256(s0)

\* The ? operator over the reads of a branch, in their order: the first
\* error is the one returned.
FirstErr(reads) ==
    reads[CHOOSE i \in 1..Len(reads) :
              ~reads[i].ok /\ \A j \in 1..(i - 1) : reads[j].ok]

\* The branch taken for a buffer whose first byte is 0x02 (rest = bytes[1..]).
ParseEip1559(rest) ==
    IF ~NineItems(rest)
    THEN Err("EIP-1559 signing payload must be RLP list of 9 items")
    ELSE CHOOSE r_ \in
             {IF \E i \in 1..Len(reads) : ~reads[i].ok THEN FirstErr(reads)
              ELSE IF ~AccessListEmpty(reads[9].v)
              THEN Err("Only empty accessList is supported in unsigned payload")
              ELSE Ok([tag |-> "Eip1559", chain_id |-> reads[1].v,
                       nonce |-> reads[2].v, max_priority_fee |-> reads[3].v,
                       max_fee |-> reads[4].v, gas_limit |-> reads[5].v,
                       to |-> reads[6].v, value |-> reads[7].v,
                       data |-> reads[8].v])
                  : reads \in {<<ValAt(rest, 0, DecodeU256),
                                 ValAt(rest, 1, DecodeU256),
                                 ValAt(rest, 2, DecodeU256),
                                 ValAt(rest, 3, DecodeU256),
                                 ValAt(rest, 4, DecodeU256),
                                 ValAt(rest, 5, DecodeAddress),
                                 ValAt(rest, 6, DecodeU256),
                                 ValAt(rest, 7, DecodeVec),
                                 At(rest, 8)>>}} : TRUE

\* The else branch: the whole buffer as a legacy EIP-155 preimage.
ParseLegacy(bytes) ==
    IF ~NineItems(bytes)
    THEN Err(LegacyCountMsg)
    ELSE CHOOSE r_ \in
             {IF \E i \in 1..Len(reads) : ~reads[i].ok THEN FirstErr(reads)
              ELSE IF ~PlaceholdersZero(reads[8].v, reads[9].v)
              THEN Err("Expected trailing r,s = 0,0 in legacy preimage")
              ELSE Ok([tag |-> "Legacy", nonce |-> reads[1].v,
                       gas_price |-> reads[2].v, gas_limit |-> reads[3].v,
                       to |-> reads[4].v, value |-> reads[5].v,
                       data |-> reads[6].v, chain_id |-> reads[7].v])
                  : reads \in {<<ValAt(bytes, 0, DecodeU256),
                                 ValAt(bytes, 1, DecodeU256),
                                 ValAt(bytes, 2, DecodeU256),
                                 ValAt(bytes, 3, DecodeAddress),
                                 ValAt(bytes, 4, DecodeU256),
                                 ValAt(bytes, 5, DecodeVec),
                                 ValAt(bytes, 6, DecodeU256),
                                 ValAt(bytes, 7, DecodeU256),
                                 ValAt(bytes, 8, DecodeU256)>>}} : TRUE

\* Which branch parse_unsigned takes: bytes.split_first() = Some((&0x02, rest)).
parse_branch(bytes) ==
    IF bytes # <<>> /\ bytes[1] = 2 THEN "Eip1559" ELSE "Legacy"

\* A parser that falls back to the legacy reading of the rest when the
\* fee-market reading fails.
parse_unsigned_retry(bytes) ==
    IF parse_branch(bytes) = "Eip1559"
    THEN CHOOSE r_ \in
             {IF r.ok THEN r ELSE ParseLegacy(Tail(bytes))
                  : r \in {ParseEip1559(Tail(bytes))}} : TRUE
    ELSE ParseLegacy(bytes)

\* parse_unsigned
parse_unsigned(bytes) ==
    IF parse_branch(bytes) = "Eip1559" THEN ParseEip1559(Tail(bytes))
    ELSE ParseLegacy(bytes)

(***************************************************************************)
(* tx_signer: unsigned_to_typed.                                           *)
(***************************************************************************)
\* U256::fits_word: the value fits in 64 bits.
FitsWord(x) == Take(x, U256Bytes - U64Bytes) = Zeros(U256Bytes - U64Bytes)

\* U256::as_u64 panics unless the value fits; U64::from keeps the 8 bytes.
unsigned_to_typed(u) ==
    IF ~FitsWord(u.chain_id) THEN [panic |-> TRUE]
    ELSE LET chain_id == Drop(u.chain_id, U256Bytes - U64Bytes)
         IN  IF u.tag = "Legacy"
             THEN [panic |-> FALSE,
                   tx |-> [tag |-> "Legacy", to |-> u.to, value |-> u.value,
                           gas_price |-> u.gas_price, gas |-> u.gas_limit,
                           nonce |-> u.nonce, chain_id |-> chain_id,
                           data |-> u.data]]
             ELSE [panic |-> FALSE,
                   tx |-> [tag |-> "Eip1559", chain_id |-> chain_id,
                           nonce |-> u.nonce,
                           max_priority_fee_per_gas |-> u.max_priority_fee,
                           max_fee_per_gas |-> u.max_fee, gas |-> u.gas_limit,
                           to |-> u.to, value |-> u.value, data |-> u.data,
                           access_list |-> <<>>]]

(***************************************************************************)
(* Signing (wallet.sign_transaction_sync) and the signed encoding          *)
(* (typed.rlp_signed), as the signer's main calls them.                    *)
(***************************************************************************)
\* TransactionRequest::rlp_base
LegacyRlpBase(tx) ==
    AppendUint(tx.nonce) \o AppendUint(tx.gas_price) \o AppendUint(tx.gas)
        \o AppendAddress(tx.to) \o AppendUint(tx.value) \o AppendBytes(tx.data)

\* Eip1559TransactionRequest::rlp_base (the access list is the empty list)
Eip1559RlpBase(tx) ==
    AppendUint(tx.chain_id) \o AppendUint(tx.nonce)
        \o AppendUint(tx.max_priority_fee_per_gas)
        \o AppendUint(tx.max_fee_per_gas) \o AppendUint(tx.gas)
        \o AppendAddress(tx.to) \o AppendUint(tx.value) \o AppendBytes(tx.data)
        \o RlpList(tx.access_list)

\* Signing the bytes that were read, as they are.
SigningPayload_verbatim(tx) == unsigned_bytes

\* TypedTransaction::rlp: the bytes whose hash is signed, regenerated from
\* the typed transaction.
SigningPayload(tx) ==
    IF tx.tag = "Legacy"
    THEN RlpList(LegacyRlpBase(tx)
                 \o AppendUint(tx.chain_id) \o AppendU8(0) \o AppendU8(0))
    ELSE <<2>> \o RlpList(Eip1559RlpBase(tx))

\* The byte at position i of the input, weighted by its block, zero
\* beyond the end.
Absorb(b, i, block) == IF i <= Len(b) THEN (b[i] * (2 * block + 1)) % 256 ELSE 0

\* keccak256, abstracted to a 32-byte digest computed from all the bytes of
\* inputs of up to 256 bytes and their number: byte j of the digest mixes
\* the input bytes at the positions j, j + 32, j + 64, ...
Keccak256(bs) ==
    CHOOSE r_ \in
        {[j \in 1..U256Bytes |->
             (Len(b) * j + Absorb(b, j, 0) + Absorb(b, j + 32, 1)
                  + Absorb(b, j + 64, 2) + Absorb(b, j + 96, 3)
                  + Absorb(b, j + 128, 4) + Absorb(b, j + 160, 5)
                  + Absorb(b, j + 192, 6) + Absorb(b, j + 224, 7)) % 256]
             : b \in {bs}} : TRUE

\* A valid secp256k1 secret key is non-zero.
ValidKey(k) == k # 0

\* Wallet::sign_hash, abstracted: a deterministic signature (RFC 6979) of the
\* digest under the key, with its recovery id.
SignHash(hash, k) ==
    CHOOSE r_ \in
        {[r |-> [j \in 1..U256Bytes |->
                    IF j = U256Bytes THEN 1 + ((h[j] + 7 * k) % 255)
                    ELSE (h[j] + 7 * k) % 256],
          s |-> [j \in 1..U256Bytes |->
                    IF j = U256Bytes THEN 1 + ((h[1] + 13 * k) % 255)
                    ELSE (h[U256Bytes + 1 - j] + 13 * k) % 256],
          recid |-> (h[1] + h[2] + h[3] + h[U256Bytes] + k) % 2]
             : h \in {hash}} : TRUE

U64Of(n) == PadLeft(NatToBE(n), U64Bytes)

\* to_eip155_v: (recovery_id as u64) + 35 + chain_id * 2, in u64.
to_eip155_v(recovery_id, chain_id) ==
    CHOOSE r_ \in
        {CHOOSE q_ \in
             {[overflow |-> twice.overflow \/ total.overflow,
               wrapped |-> total.wrapped]
                  : total \in {U64Add(U64Of(recovery_id + 35), twice.wrapped)}} : TRUE
             : twice \in {U64Add(chain_id, chain_id)}} : TRUE

\* a - b in u64: borrow is the overflow.
U64Sub(a, b) ==
    CHOOSE r_ \in
        {[overflow |-> full[1] = 0, wrapped |-> Tail(full)]
             : full \in {AddCarry(a, [i \in 1..Len(b) |-> 255 - b[i]], 1)}} : TRUE

\* normalize_v: if v > 1 { v - chain_id * 2 - 35 } else { v }
normalize_v(v, chain_id) ==
    IF StripZeros(v) \in {<<>>, <<1>>} THEN [overflow |-> FALSE, wrapped |-> v]
    ELSE CHOOSE r_ \in
             {CHOOSE q_ \in
                  {[overflow |-> twice.overflow \/ d.overflow
                                     \/ U64Sub(d.wrapped, U64Of(35)).overflow,
                    wrapped |-> U64Sub(d.wrapped, U64Of(35)).wrapped]
                       : d \in {U64Sub(v, twice.wrapped)}} : TRUE
                  : twice \in {U64Add(chain_id, chain_id)}} : TRUE

\* The signed encoding with the signature's v as it is, for both variants.
rlp_signed_rawV(tx, signature) ==
    IF tx.tag = "Legacy"
    THEN RlpList(LegacyRlpBase(tx)
                 \o AppendUint(signature.v) \o AppendUint(signature.r)
                 \o AppendUint(signature.s))
    ELSE <<2>> \o RlpList(Eip1559RlpBase(tx)
                 \o AppendUint(signature.v) \o AppendUint(signature.r)
                 \o AppendUint(signature.s))

\* TypedTransaction::rlp_signed
rlp_signed(tx, signature) ==
    IF tx.tag = "Legacy"
    THEN RlpList(LegacyRlpBase(tx)
                 \o AppendUint(signature.v) \o AppendUint(signature.r)
                 \o AppendUint(signature.s))
    ELSE <<2>> \o RlpList(Eip1559RlpBase(tx)
                 \o AppendUint(normalize_v(signature.v, tx.chain_id).wrapped)
                 \o AppendUint(signature.r) \o AppendUint(signature.s))

(***************************************************************************)
(* Inputs.                                                                 *)
(***************************************************************************)
\* Bounds of the explored inputs.
MaxSmall == 2
NumKeys == 2
LongDataLen == 60
MaxExtraItems == 2

U256From(n) == PadLeft(NatToBE(n), U256Bytes)

U256FromBytes(bs) == PadLeft(bs, U256Bytes)

\* 0xdeadbeefdeadbeefdeadbeefdeadbeefdeadbeef
AddrDeadBeef == [i \in 1..AddressBytes |-> <<222, 173, 190, 239>>[((i - 1) % 4) + 1]]

\* 0x000000000000000000000000000000000000dEaD
AddrDead == Zeros(AddressBytes - 2) \o <<222, 173>>

Addresses == {AddrDeadBeef, AddrDead, Zeros(AddressBytes)}

\* Values the builder's u64 arguments (nonce, gas limit, chain id) take,
\* as U256::from(u64): small ones, the one- and two-byte boundaries, the
\* values of the repository's tests, and the top of the u64 range.
TwoTo63 == <<128, 0, 0, 0, 0, 0, 0, 0>>

TwoTo63Minus18 == <<127, 255, 255, 255, 255, 255, 255, 238>>

U64Max == [i \in 1..U64Bytes |-> 255]

U64Vals ==
    {U256From(n) : n \in (0..MaxSmall) \cup {5, 127, 128, 255, 256, 21000, 80002}}
        \cup {U256FromBytes(TwoTo63Minus18), U256FromBytes(TwoTo63),
              U256FromBytes(U64Max)}

\* 30 gwei, 1.5 ether, 2^64 and 2^256 - 1.
Gwei30 == U256FromBytes(<<6, 252, 35, 172, 0>>)

Ether1_5 == U256FromBytes(<<20, 209, 18, 13, 123, 22, 0, 0>>)

TwoTo64 == U256FromBytes(<<1, 0, 0, 0, 0, 0, 0, 0, 0>>)

U256Max == [i \in 1..U256Bytes |-> 255]

\* Values of the U256 arguments (value, gas price, fees).
U256Vals == U64Vals \cup {Gwei30, Ether1_5, TwoTo64, U256Max}

LongData == [i \in 1..LongDataLen |-> 7]

DataVals == {<<>>, <<0>>, <<127>>, <<128>>, <<1, 2, 3>>, AddrDead, LongData}

\* Scenario A of the builder's tests, and an all-zero intent with long data.
LegacyBases ==
    {[tag |-> "Legacy", nonce |-> U256From(5), gas_price |-> Gwei30,
      gas_limit |-> U256From(21000), to |-> AddrDeadBeef, value |-> Ether1_5,
      data |-> <<>>, chain_id |-> U256From(1)],
     [tag |-> "Legacy", nonce |-> U256From(0), gas_price |-> U256From(0),
      gas_limit |-> U256From(0), to |-> Zeros(AddressBytes), value |-> U256From(0),
      data |-> LongData, chain_id |-> U256From(0)]}

\* Scenario B of the builder's tests, and an all-zero intent with long data.
Eip1559Bases ==
    {[tag |-> "Eip1559", chain_id |-> U256From(80002), nonce |-> U256From(1),
      max_priority_fee |-> U256FromBytes(<<119, 53, 148, 0>>),
      max_fee |-> U256FromBytes(<<23, 72, 118, 232, 0>>),
      gas_limit |-> U256From(21000), to |-> AddrDead, value |-> U256From(0),
      data |-> <<>>],
     [tag |-> "Eip1559", chain_id |-> U256From(0), nonce |-> U256From(0),
      max_priority_fee |-> U256From(0), max_fee |-> U256From(0),
      gas_limit |-> U256From(0), to |-> Zeros(AddressBytes), value |-> U256From(0),
      data |-> LongData]}

\* The fields both variants have, varied one at a time around a base.
VaryCommon(b) ==
    {[b EXCEPT !.nonce = x] : x \in U64Vals}
        \cup {[b EXCEPT !.gas_limit = x] : x \in U64Vals}
        \cup {[b EXCEPT !.chain_id = x] : x \in U64Vals}
        \cup {[b EXCEPT !.value = x] : x \in U256Vals}
        \cup {[b EXCEPT !.data = x] : x \in DataVals}
        \cup {[b EXCEPT !.to = x] : x \in Addresses}

\* The intents tx_builder's main passes to the two builders.
LegacyIntents ==
    UNION {VaryCommon(b) \cup {[b EXCEPT !.gas_price = x] : x \in U256Vals}
               : b \in LegacyBases}

Eip1559Intents ==
    UNION {VaryCommon(b)
               \cup {[b EXCEPT !.max_priority_fee = x] : x \in U256Vals}
               \cup {[b EXCEPT !.max_fee = x] : x \in U256Vals}
               : b \in Eip1559Bases}

Intents == LegacyIntents \cup Eip1559Intents

NoIntent == [tag |-> "None"]

(***************************************************************************)
(* Unsigned files that do not come from tx_builder: the signer reads       *)
(* whatever text the file (or QR image) holds.  A shape describes such a   *)
(* buffer: prefix bytes, then a top-level list of the given encoded items  *)
(* (top = "list"), a top-level byte string holding them (top = "string")   *)
(* or nothing (top = "none"), then trailing bytes.  wf says that every     *)
(* element of items is one complete RLP item.                              *)
(***************************************************************************)
LegacyBaseA ==
    [tag |-> "Legacy", nonce |-> U256From(5), gas_price |-> Gwei30,
     gas_limit |-> U256From(21000), to |-> AddrDeadBeef, value |-> Ether1_5,
     data |-> <<>>, chain_id |-> U256From(1)]

Eip1559BaseB ==
    [tag |-> "Eip1559", chain_id |-> U256From(80002), nonce |-> U256From(1),
     max_priority_fee |-> U256FromBytes(<<119, 53, 148, 0>>),
     max_fee |-> U256FromBytes(<<23, 72, 118, 232, 0>>),
     gas_limit |-> U256From(21000), to |-> AddrDead, value |-> U256From(0),
     data |-> <<>>]

\* The nine encoded items of an intent's unsigned list, one by one.
CanonItems(f) ==
    IF f.tag = "Legacy"
    THEN <<EncodeValue(StripZeros(f.nonce)), EncodeValue(StripZeros(f.gas_price)),
           EncodeValue(StripZeros(f.gas_limit)), EncodeValue(f.to),
           EncodeValue(StripZeros(f.value)), EncodeValue(f.data),
           EncodeValue(StripZeros(f.chain_id)), <<128>>, <<128>>>>
    ELSE <<EncodeValue(StripZeros(f.chain_id)), EncodeValue(StripZeros(f.nonce)),
           EncodeValue(StripZeros(f.max_priority_fee)),
           EncodeValue(StripZeros(f.max_fee)), EncodeValue(StripZeros(f.gas_limit)),
           EncodeValue(f.to), EncodeValue(StripZeros(f.value)),
           EncodeValue(f.data), <<192>>>>

CanonPrefix(f) == IF f.tag = "Legacy" THEN <<>> ELSE <<2>>

\* Complete items put in place of a field: the byte 0x00, the byte 0x01, the
\* empty string, the empty list, a one-item list, a string with a leading
\* zero, two zero bytes, a 33-byte string, a 20-byte string, 2^64, 2^63 and
\* 2^63 - 18.
WellFormedAlts ==
    {<<0>>, <<1>>, <<128>>, <<192>>, <<193, 128>>, <<130, 0, 1>>, <<130, 0, 0>>,
     EncodeValue([i \in 1..(U256Bytes + 1) |-> 1]), EncodeValue(AddrDead),
     EncodeValue(StripZeros(TwoTo64)), EncodeValue(TwoTo63),
     EncodeValue(TwoTo63Minus18)}

\* Byte sequences that are no complete canonical item: a truncated string,
\* the long form used for a short string, a single byte behind a length.
MalformedAlts == {<<131, 1>>, <<184, 1, 5>>, <<129, 5>>}

ReplaceAt(items, i, a) == [items EXCEPT ![i] = a]

Shape(prefix, top, items, wf, trailing, text) ==
    [prefix |-> prefix, top |-> top, items |-> items, wf |-> wf,
     trailing |-> trailing, text |-> text]

NoShape == Shape(<<>>, "none", <<>>, TRUE, <<>>, "none")

ExtraItems == [i \in 1..MaxExtraItems |-> <<128>>]

ShapesOf(f) ==
    LET canon == CanonItems(f)
        pre   == CanonPrefix(f)
    IN  {Shape(pre, "list", ReplaceAt(canon, i, a), TRUE, <<>>, "plain")
             : i \in 1..9, a \in WellFormedAlts}
        \cup {Shape(pre, "list", ReplaceAt(canon, i, a), FALSE, <<>>, "plain")
             : i \in 1..9, a \in MalformedAlts}
        \cup {Shape(pre, "list", Take(canon \o ExtraItems, n), TRUE, <<>>, "plain")
             : n \in 0..(9 + MaxExtraItems)}
        \cup {Shape(pre, "list", canon \o <<a>>, FALSE, <<>>, "plain")
             : a \in {<<131, 1>>}}
        \cup {Shape(pre, "list", canon, TRUE, t, "plain")
             : t \in {<<0>>, <<192>>, <<128, 128>>}}
        \cup {Shape(p, "list", canon, TRUE, <<>>, "plain")
             : p \in {<<>>, <<1>>, <<2>>, <<2, 2>>}}
        \cup {Shape(p, "string", its, TRUE, <<>>, "plain")
             : p \in {<<>>, <<2>>}, its \in {<<>>, <<<<0>>>>, canon}}
        \cup {Shape(pre, "list", canon, TRUE, <<>>, t)
             : t \in {"0x", "0x0x", "newline", "upper", "odd", "badchar"}}

Supplied ==
    ShapesOf(LegacyBaseA) \cup ShapesOf(Eip1559BaseB)
        \cup {Shape(p, "none", <<>>, TRUE, <<>>, "plain") : p \in {<<>>, <<2>>}}

\* The bytes a shape describes.
ShapeBytes(sh) ==
    sh.prefix
        \o (CASE sh.top = "list" -> RlpList(Concat(sh.items))
              [] sh.top = "string" -> EncodeValue(Concat(sh.items))
              [] OTHER -> <<>>)
        \o sh.trailing

ToUpper(c) ==
    CASE c = "a" -> "A" [] c = "b" -> "B" [] c = "c" -> "C" [] c = "d" -> "D"
      [] c = "e" -> "E" [] c = "f" -> "F" [] OTHER -> c

\* The text of the file holding a shape's bytes.
ShapeText(sh) ==
    LET hex == HexEncode(ShapeBytes(sh))
    IN  CASE sh.text = "0x" -> <<"0", "x">> \o hex
          [] sh.text = "0x0x" -> <<"0", "x", "0", "x">> \o hex
          [] sh.text = "newline" -> hex \o <<"\n">>
          [] sh.text = "spaced" -> Take(hex, 2) \o <<" ">> \o Drop(hex, 2)
          [] sh.text = "upper" -> [i \in 1..Len(hex) |-> ToUpper(hex[i])]
          [] sh.text = "odd" -> hex \o <<"0">>
          [] sh.text = "badchar" -> hex \o <<"g", "0">>
          [] OTHER -> hex

(***************************************************************************)
(* The run: tx_builder (or another source of the file), then tx_signer.     *)
(***************************************************************************)
NotRun == Err("not run")

NoTyped == [panic |-> FALSE, tx |-> [tag |-> "None"]]

NoSig == [v |-> Zeros(U64Bytes), r |-> Zeros(U256Bytes), s |-> Zeros(U256Bytes),
          recid |-> 0]

Keys == 0..NumKeys

\* The run of tx_builder and tx_signer has not begun.
SignerIdle ==
    /\ pc = "start"
    /\ intent = NoIntent
    /\ shape = NoShape
    /\ key = 0
    /\ unsigned_bytes = <<>>
    /\ utx = NotRun
    /\ typed = NoTyped
    /\ signing_payload = <<>>
    /\ sig = NoSig
    /\ signed_raw = <<>>
    /\ output = <<>>

\* tx_inspector is not run.
InspectorIdle ==
    /\ insp_pc = "idle"
    /\ rlp_bytes = <<>>
    /\ attempts = <<>>
    /\ report = NotRun

\* tx_broadcaster is not run.
BroadcasterIdle ==
    /\ bc_pc = "idle"
    /\ signed_tx = <<>>
    /\ request = NotRun
    /\ response = NotRun
    /\ bc_result = NotRun

\* decode_qr_from_file is not called.
QrIdle ==
    /\ qr_pc = "idle"
    /\ image = NotRun
    /\ strategies = <<>>
    /\ qr_result = NotRun

Init ==
    /\ SignerIdle
    /\ file = <<>>
    /\ InspectorIdle
    /\ BroadcasterIdle
    /\ QrIdle

(***************************************************************************)
(* tx_builder main: build the preimage of the intent and write it as hex.  *)
(***************************************************************************)
BuilderMain(f) ==
    /\ pc = "start"
    /\ intent' = f
    /\ file' = HexEncode(BuildIntent(f))
    /\ pc' = "input"
    /\ UNCHANGED <<shape, key, unsigned_bytes, utx, typed, signing_payload, sig,
                   signed_raw, output>>
    /\ UNCHANGED tool_vars

\* The unsigned file comes from elsewhere.
SupplyFile(sh) ==
    /\ pc = "start"
    /\ shape' = sh
    /\ file' = ShapeText(sh)
    /\ pc' = "input"
    /\ UNCHANGED <<intent, key, unsigned_bytes, utx, typed, signing_payload, sig,
                   signed_raw, output>>
    /\ UNCHANGED tool_vars

(***************************************************************************)
(* tx_signer main, step by step.                                           *)
(***************************************************************************)
\* 1) Wallet: wallet_from_hex_no0x fails on an invalid key.
SignerWallet(k) ==
    /\ pc = "input"
    /\ key' = k
    /\ pc' = IF ValidKey(k) THEN "wallet" ELSE "failed"
    /\ UNCHANGED <<intent, shape, file, unsigned_bytes, utx, typed,
                   signing_payload, sig, signed_raw, output>>
    /\ UNCHANGED tool_vars

\* 2) Read unsigned hex: trim, trim_start_matches("0x"), hex::decode.
SignerRead ==
    /\ pc = "wallet"
    /\ LET decoded == HexDecode(TrimStartMatches0x(Trim(file)))
       IN  IF decoded.ok
           THEN /\ unsigned_bytes' = decoded.v
                /\ pc' = "read"
           ELSE /\ unsigned_bytes' = unsigned_bytes
                /\ pc' = "failed"
    /\ UNCHANGED <<intent, shape, file, key, utx, typed, signing_payload, sig,
                   signed_raw, output>>
    /\ UNCHANGED tool_vars

\* 3) parse_unsigned(&unsigned_bytes)?
SignerParse ==
    /\ pc = "read"
    /\ utx' = parse_unsigned(unsigned_bytes)
    /\ pc' = IF utx'.ok THEN "parsed" ELSE "failed"
    /\ UNCHANGED <<intent, shape, file, key, unsigned_bytes, typed,
                   signing_payload, sig, signed_raw, output>>
    /\ UNCHANGED tool_vars

\* 3) unsigned_to_typed(&utx)
SignerTyped ==
    /\ pc = "parsed"
    /\ typed' = unsigned_to_typed(utx.v)
    /\ pc' = IF typed'.panic THEN "panicked" ELSE "typed"
    /\ UNCHANGED <<intent, shape, file, key, unsigned_bytes, utx,
                   signing_payload, sig, signed_raw, output>>
    /\ UNCHANGED tool_vars

\* 4) Sign: wallet.sign_transaction_sync(&typed)?, typed.rlp_signed(&sig).
\* overflow_checks is the build's setting: an overflowing u64 operation
\* panics with it and wraps without it.
SignerSign(overflow_checks) ==
    /\ pc = "typed"
    /\ signing_payload' = SigningPayload(typed.tx)
    /\ LET tx  == typed.tx
           raw == SignHash(Keccak256(signing_payload'), key)
           v   == to_eip155_v(raw.recid, tx.chain_id)
       IN  IF overflow_checks
                 /\ (v.overflow
                        \/ (tx.tag = "Eip1559"
                               /\ normalize_v(v.wrapped, tx.chain_id).overflow))
           THEN /\ pc' = "panicked"
                /\ UNCHANGED <<sig, signed_raw>>
           ELSE /\ sig' = [v |-> v.wrapped, r |-> raw.r, s |-> raw.s,
                           recid |-> raw.recid]
                /\ signed_raw' = rlp_signed(tx, sig')
                /\ pc' = "signed"
    /\ UNCHANGED <<intent, shape, file, key, unsigned_bytes, utx, typed, output>>
    /\ UNCHANGED tool_vars

\* 5) Output: fs::write(&args.output, hex::encode(&signed_raw)).
SignerOutput ==
    /\ pc = "signed"
    /\ output' = HexEncode(signed_raw)
    /\ pc' = "written"
    /\ UNCHANGED <<intent, shape, file, key, unsigned_bytes, utx, typed,
                   signing_payload, sig, signed_raw>>
    /\ UNCHANGED tool_vars

Next ==
    \/ \E f \in Intents : BuilderMain(f)
    \/ \E sh \in Supplied : SupplyFile(sh)
    \/ \E k \in Keys : SignerWallet(k)
    \/ SignerRead
    \/ SignerParse
    \/ SignerTyped
    \/ \E overflow_checks \in BOOLEAN : SignerSign(overflow_checks)
    \/ SignerOutput

Spec == Init /\ [][Next]_vars

(***************************************************************************)
(* Properties.                                                             *)
(***************************************************************************)
\* parse_unsigned has run on the bytes that were read.
ParseRan == utx.ok \/ utx.err # "not run"

AfterParse == {"parsed", "typed", "signed", "written", "panicked"}

\* C1: round trip.  Whatever intent tx_builder was given, the signer's
\* parse_unsigned of the bytes it wrote succeeds and returns the variant
\* and the fields of that intent, for both variants: the run never fails
\* at the parse, and the parsed value is the intent.
C1_RoundTrip ==
    intent.tag # "None" =>
        /\ (pc = "failed" => ~ValidKey(key))
        /\ (pc \in AfterParse => utx = Ok(intent))
        /\ (ParseRan => utx.ok)

\* A fee-market intent with long data (a list of more than 55 bytes) has
\* been built, written, read and parsed.
C1_Witness ==
    /\ pc = "parsed"
    /\ intent.tag = "Eip1559"
    /\ intent.data = LongData
    /\ utx.ok /\ utx.v = intent

\* The signed bytes of a parsed value u under key k, from u and k alone.
SignedBytesOf(u, k) ==
    LET tx  == unsigned_to_typed(u).tx
        raw == SignHash(Keccak256(BuildIntent(u)), k)
    IN  rlp_signed(tx, [v |-> to_eip155_v(raw.recid, tx.chain_id).wrapped,
                        r |-> raw.r, s |-> raw.s, recid |-> raw.recid])

\* C2: the signed bytes are never the supplied ones as such.  Once the
\* signer has signed, the payload it hashed is the builder's output for the
\* parsed fields, whatever buffer was read, the signature is the key's
\* signature of that output, and the signed bytes are those of the parsed
\* value and the key: all depend on the parsed model and the key alone, so
\* two buffers with the same parse give the same payload and signed bytes.
C2_RegeneratedPayload ==
    pc \in {"signed", "written"} =>
        /\ signing_payload = BuildIntent(utx.v)
        /\ [r |-> sig.r, s |-> sig.s, recid |-> sig.recid]
               = SignHash(Keccak256(BuildIntent(utx.v)), key)
        /\ signed_raw = SignedBytesOf(utx.v, key)

\* A buffer that is not what the builder emits (bytes after the list) was
\* accepted and signed: the payload differs from the bytes read.
C2_Witness ==
    /\ pc = "signed"
    /\ shape.trailing # <<>>
    /\ unsigned_bytes # signing_payload
    /\ signing_payload = BuildIntent(utx.v)

\* The bytes are exactly one RLP list.
SingleList(bytes) ==
    /\ IsList(bytes)
    /\ PayloadInfo(bytes).ok
    /\ PayloadInfo(bytes).v.header_len + PayloadInfo(bytes).v.value_len = Len(bytes)

\* C3: for a Legacy intent the signature's v is recoveryId + chainId*2 + 35
\* (as integers) with recoveryId 0 or 1; for chainId = 1 it is 37 or 38 and
\* the signed bytes are not empty.
C3_LegacyV ==
    (pc \in {"signed", "written"} /\ typed.tx.tag = "Legacy") =>
        /\ sig.recid \in {0, 1}
        /\ StripZeros(sig.v)
               = BigAdd(BigAdd(StripZeros(utx.v.chain_id), StripZeros(utx.v.chain_id)),
                        NatToBE(sig.recid + 35))
        /\ (utx.v.chain_id = U256From(1) =>
                /\ StripZeros(sig.v) \in {<<37>>, <<38>>}
                /\ signed_raw # <<>>)

\* C4: the signed bytes have the variant's layout.  Legacy: one list of
\* exactly 9 items, nonce, gasPrice, gasLimit, to, value, data, then the
\* signature's v, r, s.  Fee-market: the byte 0x02, then one list of exactly
\* 12 items, chainId, nonce, the two fees, gasLimit, to, value, data, an
\* empty list, then v, r, s with v 0 or 1.
C4_SignedLayout ==
    pc \in {"signed", "written"} =>
        IF typed.tx.tag = "Legacy"
        THEN /\ SingleList(signed_raw)
             /\ ItemCount(signed_raw) = Ok(9)
             /\ ValAt(signed_raw, 0, DecodeU256) = Ok(utx.v.nonce)
             /\ ValAt(signed_raw, 1, DecodeU256) = Ok(utx.v.gas_price)
             /\ ValAt(signed_raw, 2, DecodeU256) = Ok(utx.v.gas_limit)
             /\ ValAt(signed_raw, 3, DecodeAddress) = Ok(utx.v.to)
             /\ ValAt(signed_raw, 4, DecodeU256) = Ok(utx.v.value)
             /\ ValAt(signed_raw, 5, DecodeVec) = Ok(utx.v.data)
             /\ ValAt(signed_raw, 6, DecodeU256) = Ok(PadLeft(sig.v, U256Bytes))
             /\ ValAt(signed_raw, 7, DecodeU256) = Ok(sig.r)
             /\ ValAt(signed_raw, 8, DecodeU256) = Ok(sig.s)
        ELSE /\ signed_raw[1] = 2
             /\ SingleList(Tail(signed_raw))
             /\ ItemCount(Tail(signed_raw)) = Ok(12)
             /\ ValAt(Tail(signed_raw), 0, DecodeU256) = Ok(utx.v.chain_id)
             /\ ValAt(Tail(signed_raw), 1, DecodeU256) = Ok(utx.v.nonce)
             /\ ValAt(Tail(signed_raw), 2, DecodeU256) = Ok(utx.v.max_priority_fee)
             /\ ValAt(Tail(signed_raw), 3, DecodeU256) = Ok(utx.v.max_fee)
             /\ ValAt(Tail(signed_raw), 4, DecodeU256) = Ok(utx.v.gas_limit)
             /\ ValAt(Tail(signed_raw), 5, DecodeAddress) = Ok(utx.v.to)
             /\ ValAt(Tail(signed_raw), 6, DecodeU256) = Ok(utx.v.value)
             /\ ValAt(Tail(signed_raw), 7, DecodeVec) = Ok(utx.v.data)
             /\ At(Tail(signed_raw), 8) = Ok(<<192>>)
             /\ ValAt(Tail(signed_raw), 9, DecodeU256) \in {Ok(U256From(0)), Ok(U256From(1))}
             /\ ValAt(Tail(signed_raw), 10, DecodeU256) = Ok(sig.r)
             /\ ValAt(Tail(signed_raw), 11, DecodeU256) = Ok(sig.s)

\* A fee-market transaction was signed with recovery id 1 and its signed
\* bytes carry v = 1.
C4_Witness ==
    /\ pc = "signed"
    /\ typed.tx.tag = "Eip1559"
    /\ sig.recid = 1
    /\ ValAt(Tail(signed_raw), 9, DecodeU256) = Ok(U256From(1))

StartsWith02 == unsigned_bytes # <<>> /\ unsigned_bytes[1] = 2

LegacyErrors ==
    {LegacyCountMsg,
     "Expected trailing r,s = 0,0 in legacy preimage"}

Eip1559Errors ==
    {"EIP-1559 signing payload must be RLP list of 9 items",
     "Only empty accessList is supported in unsigned payload"}

\* C5: type discrimination is total and unambiguous.  A buffer that starts
\* with 0x02 is read as a fee-market payload only: a success is the Eip1559
\* variant whose chainId is the first item behind the stripped byte, a
\* failure is never a legacy one, and a valid legacy list behind the 0x02
\* is rejected.  Every other buffer, the empty one included, is read as a
\* legacy list only.  No legacy preimage of the builder starts with 0x02:
\* its first byte is a list prefix >= 0xc0.
C5_TypeDiscrimination ==
    /\ (ParseRan /\ StartsWith02) =>
           /\ utx.ok => /\ utx.v.tag = "Eip1559"
                        /\ ValAt(Tail(unsigned_bytes), 0, DecodeU256)
                               = Ok(utx.v.chain_id)
           /\ ~utx.ok => utx.err \notin LegacyErrors
           /\ ParseLegacy(Tail(unsigned_bytes)).ok => ~utx.ok
    /\ (ParseRan /\ ~StartsWith02) =>
           /\ utx.ok => /\ utx.v.tag = "Legacy"
                        /\ ValAt(unsigned_bytes, 0, DecodeU256) = Ok(utx.v.nonce)
           /\ ~utx.ok => utx.err \notin Eip1559Errors
           /\ unsigned_bytes = <<>> =>
                  utx = Err(LegacyCountMsg)
    /\ (intent.tag = "Legacy" /\ pc \in AfterParse \cup {"read"}) =>
           unsigned_bytes[1] >= 192

\* A valid legacy list behind a 0x02 byte was read and rejected.
C5_Witness ==
    /\ ParseRan
    /\ shape.prefix = <<2>>
    /\ shape.top = "list"
    /\ shape.items = CanonItems(LegacyBaseA)
    /\ ParseLegacy(Tail(unsigned_bytes)).ok
    /\ ~utx.ok

\* A buffer without prefix whose top-level item is a list of nine elements.
LegacyShaped ==
    shape.prefix = <<>> /\ shape.top = "list" /\ Len(shape.items) = 9

\* C6: a legacy-shaped list of 9 items whose item 7 or item 8 is anything
\* but the zero-length byte string (a non-empty string, the byte 0x00, a
\* list, ...) makes parse_unsigned fail: no UnsignedTx comes out of it.
C6_PlaceholdersRequired ==
    (ParseRan /\ LegacyShaped
        /\ (shape.items[8] # <<128>> \/ shape.items[9] # <<128>>)) => ~utx.ok

\* The legacy preimage of the builder's test with the single byte 0x00 as
\* its last item was read and rejected.
C6_Witness ==
    /\ ParseRan
    /\ LegacyShaped
    /\ shape.items = ReplaceAt(CanonItems(LegacyBaseA), 9, <<0>>)
    /\ shape.trailing = <<>>
    /\ ~utx.ok

\* A 0x02 byte followed by a list of nine elements.
Eip1559Shaped ==
    shape.prefix = <<2>> /\ shape.top = "list" /\ Len(shape.items) = 9

\* C7: a 0x02-prefixed payload whose item 8 is not the list with zero items
\* (a list with entries, or a byte string of any length) makes
\* parse_unsigned fail.
C7_EmptyAccessListRequired ==
    (ParseRan /\ Eip1559Shaped /\ shape.items[9] # <<192>>) => ~utx.ok

\* The fee-market payload of the builder's test with a one-entry access
\* list was read and rejected for it.
C7_Witness ==
    /\ ParseRan
    /\ Eip1559Shaped
    /\ shape.items = ReplaceAt(CanonItems(Eip1559BaseB), 9, <<193, 128>>)
    /\ utx = Err("Only empty accessList is supported in unsigned payload")

BuiltAndRead == intent.tag # "None" /\ pc \in AfterParse \cup {"read"}

\* C9: build_legacy_preimage yields one RLP list of exactly 9 items, in the
\* order nonce, gasPrice, gasLimit, to, value, data, chainId, placeholder,
\* placeholder: items 0..6 decode to the fields and items 7 and 8 are
\* zero-length byte strings (not the byte 0x00, not empty lists).
C9_LegacyPreimageLayout ==
    (BuiltAndRead /\ intent.tag = "Legacy") =>
        /\ SingleList(unsigned_bytes)
        /\ ItemCount(unsigned_bytes) = Ok(9)
        /\ ValAt(unsigned_bytes, 0, DecodeU256) = Ok(intent.nonce)
        /\ ValAt(unsigned_bytes, 1, DecodeU256) = Ok(intent.gas_price)
        /\ ValAt(unsigned_bytes, 2, DecodeU256) = Ok(intent.gas_limit)
        /\ ValAt(unsigned_bytes, 3, DecodeAddress) = Ok(intent.to)
        /\ ValAt(unsigned_bytes, 4, DecodeU256) = Ok(intent.value)
        /\ ValAt(unsigned_bytes, 5, DecodeVec) = Ok(intent.data)
        /\ ValAt(unsigned_bytes, 6, DecodeU256) = Ok(intent.chain_id)
        /\ At(unsigned_bytes, 7) = Ok(<<128>>)
        /\ At(unsigned_bytes, 8) = Ok(<<128>>)
        /\ IsData(At(unsigned_bytes, 7).v) /\ DecodeValue(At(unsigned_bytes, 7).v) = Ok(<<>>)
        /\ IsData(At(unsigned_bytes, 8).v) /\ DecodeValue(At(unsigned_bytes, 8).v) = Ok(<<>>)

\* The legacy preimage of a zero nonce and the largest u64 chain id has been
\* built and read back.
C9_Witness ==
    /\ BuiltAndRead
    /\ intent.tag = "Legacy"
    /\ intent.chain_id = U256FromBytes(U64Max)
    /\ At(unsigned_bytes, 8) = Ok(<<128>>)

\* C10: build_eip1559_signing_payload yields the byte 0x02 followed by one
\* RLP list of exactly 9 items, in the order chainId, nonce,
\* maxPriorityFeePerGas, maxFeePerGas, gasLimit, to, value, data,
\* accessList: items 0..7 decode to the fields and item 8 is a list with
\* zero items.
C10_Eip1559PayloadLayout ==
    (BuiltAndRead /\ intent.tag = "Eip1559") =>
        /\ unsigned_bytes[1] = 2
        /\ SingleList(Tail(unsigned_bytes))
        /\ ItemCount(Tail(unsigned_bytes)) = Ok(9)
        /\ ValAt(Tail(unsigned_bytes), 0, DecodeU256) = Ok(intent.chain_id)
        /\ ValAt(Tail(unsigned_bytes), 1, DecodeU256) = Ok(intent.nonce)
        /\ ValAt(Tail(unsigned_bytes), 2, DecodeU256) = Ok(intent.max_priority_fee)
        /\ ValAt(Tail(unsigned_bytes), 3, DecodeU256) = Ok(intent.max_fee)
        /\ ValAt(Tail(unsigned_bytes), 4, DecodeU256) = Ok(intent.gas_limit)
        /\ ValAt(Tail(unsigned_bytes), 5, DecodeAddress) = Ok(intent.to)
        /\ ValAt(Tail(unsigned_bytes), 6, DecodeU256) = Ok(intent.value)
        /\ ValAt(Tail(unsigned_bytes), 7, DecodeVec) = Ok(intent.data)
        /\ IsList(At(Tail(unsigned_bytes), 8).v)
        /\ ItemCount(At(Tail(unsigned_bytes), 8).v) = Ok(0)

\* The fee-market payload of the builder's test (chain 80002) with a
\* 2^256 - 1 value has been built and read back.
C10_Witness ==
    /\ BuiltAndRead
    /\ intent.tag = "Eip1559"
    /\ intent.chain_id = U256From(80002)
    /\ intent.value = U256Max
    /\ ItemCount(At(Tail(unsigned_bytes), 8).v) = Ok(0)

(***************************************************************************)
(* tx_inspector: the two decoders main tries, rlp::decode::<TypedTransaction> *)
(* and rlp::decode::<Transaction>.                                         *)
(***************************************************************************)
\* A call that panics returns nothing.
Panic(msg) == [ok |-> FALSE, err |-> msg, panic |-> TRUE]

Panicked(r) == "panic" \in DOMAIN r

\* Option values.
None == <<>>

Some(x) == <<x>>

\* Decodable for u64 / U64: no leading zero byte, at most 8 bytes.
DecodeU64(item) ==
    CHOOSE r_ \in
        {IF ~d.ok THEN d
         ELSE IF d.v # <<>> /\ d.v[1] = 0 THEN Err("RlpInvalidIndirection")
         ELSE IF Len(d.v) <= U64Bytes THEN Ok(PadLeft(d.v, U64Bytes))
         ELSE Err("RlpIsTooBig")
             : d \in {DecodeValue(item)}} : TRUE

\* decode_to: the empty string is no recipient, the empty list an error,
\* anything else has to be an Address.
DecodeTo(item) ==
    IF item = <<128>> THEN Ok(None)
    ELSE IF item = <<192>> THEN Err("RlpExpectedToBeData")
    ELSE CHOOSE r_ \in
             {IF a.ok THEN Ok(Some(a.v)) ELSE a : a \in {DecodeAddress(item)}} : TRUE

\* Decodable for AccessList, for the list without entries.  Lists with
\* entries are in none of the explored files and are not taken apart.
DecodeAccessList(item) ==
    IF IsList(item) /\ ItemCount(item).v = 0 THEN Ok(<<>>)
    ELSE Err("access list with entries")

\* The reads of a decoder, in their order: the field records when all
\* succeed, the first error otherwise (the ? operator).
AllOk(reads) ==
    IF \E i \in 1..Len(reads) : ~reads[i].ok THEN FirstErr(reads)
    ELSE Ok([i \in 1..Len(reads) |-> reads[i].v])

\* The six fields legacy and EIP-2930 transactions share, from item o on:
\* nonce, gas price, gas, to, value, data.
LegacyBaseReads(r, o) ==
    <<ValAt(r, o, DecodeU256), ValAt(r, o + 1, DecodeU256),
      ValAt(r, o + 2, DecodeU256), ValAt(r, o + 3, DecodeTo),
      ValAt(r, o + 4, DecodeU256), ValAt(r, o + 5, DecodeVec)>>

\* The eight fields of an EIP-1559 transaction after its chain id: nonce,
\* the two fees, gas, to, value, data, access list.
Eip1559BaseReads(r) ==
    <<ValAt(r, 1, DecodeU256), ValAt(r, 2, DecodeU256), ValAt(r, 3, DecodeU256),
      ValAt(r, 4, DecodeU256), ValAt(r, 5, DecodeTo), ValAt(r, 6, DecodeU256),
      ValAt(r, 7, DecodeVec), ValAt(r, 8, DecodeAccessList)>>

\* TransactionRequest::decode: six fields, then the chain id when item 6
\* decodes as one (for a signed transaction that item is v).
TypedLegacy(r) ==
    CHOOSE r_ \in
        {IF ~f.ok THEN f
         ELSE Ok([tag |-> "Legacy", nonce |-> f.v[1], gas_price |-> f.v[2],
                  gas |-> f.v[3], to |-> f.v[4], value |-> f.v[5],
                  data |-> f.v[6],
                  chain_id |-> LET c == ValAt(r, 6, DecodeU64)
                               IN  IF c.ok THEN Some(c.v) ELSE None])
             : f \in {AllOk(LegacyBaseReads(r, 0))}} : TRUE

\* Eip2930TransactionRequest::decode: chain id (64 bits), the six fields,
\* the access list.
TypedEip2930(r) ==
    CHOOSE r_ \in
        {IF ~f.ok THEN f
         ELSE Ok([tag |-> "Eip2930", chain_id |-> Some(f.v[1]), nonce |-> f.v[2],
                  gas_price |-> f.v[3], gas |-> f.v[4], to |-> f.v[5],
                  value |-> f.v[6], data |-> f.v[7]])
             : f \in {AllOk(<<ValAt(r, 0, DecodeU64)>> \o LegacyBaseReads(r, 1)
                                \o <<ValAt(r, 7, DecodeAccessList)>>)}} : TRUE

\* Eip1559TransactionRequest::decode: chain id (64 bits) and eight fields;
\* items after them (a signature) are not looked at.
TypedEip1559(r) ==
    CHOOSE r_ \in
        {IF ~f.ok THEN f
         ELSE Ok([tag |-> "Eip1559", chain_id |-> Some(f.v[1]), nonce |-> f.v[2],
                  max_priority_fee_per_gas |-> f.v[3], max_fee_per_gas |-> f.v[4],
                  gas |-> f.v[5], to |-> f.v[6], value |-> f.v[7],
                  data |-> f.v[8]])
             : f \in {AllOk(<<ValAt(r, 0, DecodeU64)>> \o Eip1559BaseReads(r))}} : TRUE

\* Decodable for TypedTransaction: the type is the value of the buffer read
\* as a byte string (U64::from panics on more than 8 bytes); 1 and 2 select
\* the typed requests over the bytes after the first, everything else the
\* legacy request over the whole buffer.
TypedDecode(bytes) ==
    CHOOSE r_ \in
        {IF ~tx_type.ok THEN tx_type
         ELSE IF Len(tx_type.v) > U64Bytes THEN Panic("U64::from: slice too long")
         ELSE IF bytes = <<>> THEN Err("no tx body")
         ELSE IF StripZeros(tx_type.v) = <<1>> THEN TypedEip2930(Tail(bytes))
         ELSE IF StripZeros(tx_type.v) = <<2>> THEN TypedEip1559(Tail(bytes))
         ELSE TypedLegacy(bytes)
             : tx_type \in {IF IsData(bytes) THEN DecodeValue(bytes) ELSE Ok(<<>>)}}
        : TRUE

\* decode_signature: v (64 bits), r, s.
SignatureReads(r, o) ==
    <<ValAt(r, o, DecodeU64), ValAt(r, o + 1, DecodeU256), ValAt(r, o + 2, DecodeU256)>>

\* Transaction::decode for a list: the six legacy fields and the signature.
SignedLegacy(r) ==
    CHOOSE r_ \in
        {IF ~f.ok THEN f
         ELSE Ok([tag |-> "Legacy", chain_id |-> None, nonce |-> f.v[1],
                  gas_price |-> f.v[2], gas |-> f.v[3], to |-> f.v[4],
                  value |-> f.v[5], input |-> f.v[6],
                  v |-> f.v[7], r |-> f.v[8], s |-> f.v[9]])
             : f \in {AllOk(LegacyBaseReads(r, 0) \o SignatureReads(r, 6))}} : TRUE

\* Transaction::decode for type 2: the chain id (256 bits), the eight
\* fields and the signature.
SignedEip1559(r) ==
    CHOOSE r_ \in
        {IF ~f.ok THEN f
         ELSE Ok([tag |-> "Eip1559", chain_id |-> Some(f.v[1]), nonce |-> f.v[2],
                  max_priority_fee_per_gas |-> f.v[3], max_fee_per_gas |-> f.v[4],
                  gas |-> f.v[5], to |-> f.v[6], value |-> f.v[7],
                  input |-> f.v[8], v |-> f.v[10], r |-> f.v[11], s |-> f.v[12]])
             : f \in {AllOk(<<ValAt(r, 0, DecodeU256)>> \o Eip1559BaseReads(r)
                                \o SignatureReads(r, 9))}} : TRUE

\* Transaction::decode for type 1: the chain id (256 bits), the six fields,
\* the access list and the signature.
SignedEip2930(r) ==
    CHOOSE r_ \in
        {IF ~f.ok THEN f
         ELSE Ok([tag |-> "Eip2930", chain_id |-> Some(f.v[1]), nonce |-> f.v[2],
                  gas_price |-> f.v[3], gas |-> f.v[4], to |-> f.v[5],
                  value |-> f.v[6], input |-> f.v[7],
                  v |-> f.v[9], r |-> f.v[10], s |-> f.v[11]])
             : f \in {AllOk(<<ValAt(r, 0, DecodeU256)>> \o LegacyBaseReads(r, 1)
                                \o <<ValAt(r, 7, DecodeAccessList)>>
                                \o SignatureReads(r, 8))}} : TRUE

\* The typed body of a buffer that is no list: the buffer itself when its
\* first byte is a type byte (at most 0x7f), the content of the byte string
\* it is otherwise.
Enveloped(bytes) ==
    IF bytes[1] <= 127 THEN Ok(bytes)
    ELSE CHOOSE r_ \in
             {IF ~d.ok THEN d
              ELSE IF d.v = <<>> THEN Err("empty slice")
              ELSE d
                  : d \in {DecodeValue(bytes)}} : TRUE

\* Decodable for Transaction (a signed transaction): a list is a legacy
\* transaction, anything else a typed one; indexing the first byte of an
\* empty buffer panics.
TransactionDecode(bytes) ==
    IF IsList(bytes) THEN SignedLegacy(bytes)
    ELSE IF bytes = <<>> THEN Panic("index out of bounds")
    ELSE CHOOSE r_ \in
             {IF ~data.ok THEN data
              ELSE IF data.v[1] = 1 THEN SignedEip2930(Tail(data.v))
              ELSE IF data.v[1] = 2 THEN SignedEip1559(Tail(data.v))
              ELSE Err("invalid tx type")
                  : data \in {Enveloped(bytes)}} : TRUE

(***************************************************************************)
(* tx_inspector: sender recovery, sig.recover(signed_tx.hash()).           *)
(***************************************************************************)
\* rlp_opt for the recipient: nothing is the empty string.
AppendTo(to) == IF to = None THEN <<128>> ELSE AppendAddress(to[1])

\* Transaction::rlp, the bytes Transaction::hash hashes: the signed
\* encoding of the decoded transaction.  For a typed transaction v is
\* normalized with the chain id as a u64 (U256::as_u64 panics on more).
TransactionRlp(tx) ==
    IF tx.tag = "Legacy"
    THEN Ok(RlpList(AppendUint(tx.nonce) \o AppendUint(tx.gas_price)
                        \o AppendUint(tx.gas) \o AppendTo(tx.to)
                        \o AppendUint(tx.value) \o AppendBytes(tx.input)
                        \o AppendUint(tx.v) \o AppendUint(tx.r) \o AppendUint(tx.s)))
    ELSE IF ~FitsWord(tx.chain_id[1])
    THEN Panic("Integer overflow when casting to u64")
    ELSE LET chain_id == Drop(tx.chain_id[1], U256Bytes - U64Bytes)
             y == AppendUint(normalize_v(tx.v, chain_id).wrapped)
         IN  IF tx.tag = "Eip1559"
             THEN Ok(<<2>> \o RlpList(AppendUint(tx.chain_id[1]) \o AppendUint(tx.nonce)
                        \o AppendUint(tx.max_priority_fee_per_gas)
                        \o AppendUint(tx.max_fee_per_gas) \o AppendUint(tx.gas)
                        \o AppendTo(tx.to) \o AppendUint(tx.value)
                        \o AppendBytes(tx.input) \o EmptyList
                        \o y \o AppendUint(tx.r) \o AppendUint(tx.s)))
             ELSE Ok(<<1>> \o RlpList(AppendUint(tx.chain_id[1]) \o AppendUint(tx.nonce)
                        \o AppendUint(tx.gas_price) \o AppendUint(tx.gas)
                        \o AppendTo(tx.to) \o AppendUint(tx.value)
                        \o AppendBytes(tx.input) \o EmptyList
                        \o y \o AppendUint(tx.r) \o AppendUint(tx.s)))

\* Wallet::address, abstracted: the address of a key.
AddressOf(k) == [i \in 1..AddressBytes |-> (31 * k + i) % 256]

\* An address no explored key has.
StrangerAddress == [i \in 1..AddressBytes |-> 255]

\* normalize_recovery_id: 0, 1, 27, 28 and the EIP-155 values from 35 on
\* give a recovery id; every other v gives 4, which is none.
RecoveryIdOf(v) ==
    LET n == StripZeros(v)
    IN  IF n = <<>> \/ n = <<27>> THEN 0
        ELSE IF n = <<1>> \/ n = <<28>> THEN 1
        ELSE IF Len(n) > 1 \/ n[1] >= 35 THEN 1 - (n[Len(n)] % 2)
        ELSE 4

\* Signature::recover, abstracted like SignHash: the signature a key makes
\* of a digest gives back that key's address, a zero r or s is no
\* signature, and any other signature of the digest either fails to give a
\* curve point or gives the address of some unrelated key.
RecoverOutcomes(hash, v, r, s) ==
    LET recid   == RecoveryIdOf(v)
        signers == {k \in 1..NumKeys :
                       SignHash(hash, k) = [r |-> r, s |-> s, recid |-> recid]}
    IN  IF recid = 4 THEN {Panic("normalized recovery id always valid")}
        ELSE IF IsZeroU256(r) \/ IsZeroU256(s) THEN {Err("signature error")}
        ELSE IF signers # {} THEN {Ok(AddressOf(k)) : k \in signers}
        ELSE {Err("recovery failed"), Ok(StrangerAddress)}

\* What main's match on sig.recover(signed_tx.hash()) can see for a
\* decoded transaction.
SenderOutcomes(tx) ==
    CHOOSE r_ \in
        {IF ~raw.ok THEN {raw}
         ELSE RecoverOutcomes(Keccak256(raw.v), tx.v, tx.r, tx.s)
             : raw \in {TransactionRlp(tx)}} : TRUE

(***************************************************************************)
(* tx_inspector main.                                                      *)
(***************************************************************************)
\* raw.chars().filter(|c| !c.is_whitespace())
FilterWhitespace(t) == SelectSeq(t, LAMBDA c : ~IsSpace(c))

\* main's reading of the input file: trim, drop all whitespace, refuse an
\* odd number of characters, hex::decode.
InspectorReadHex(text) ==
    LET hex_data == FilterWhitespace(Trim(text))
    IN  IF Len(hex_data) % 2 # 0
        THEN Err("Hex string has an odd number of characters")
        ELSE IF HexDecode(hex_data).ok THEN HexDecode(hex_data)
        ELSE Err("Failed to decode hex")

\* return Err(..) / the ? operator in main.
InspectorFailed(e) == [exit |-> "err", kind |-> e]

\* A panic inside a library call ends the process.
InspectorPanicked(e) == [exit |-> "panic", kind |-> e]

\* Read the file and decode its hex.
InspectorRead ==
    /\ insp_pc = "start"
    /\ LET decoded == InspectorReadHex(file)
       IN  IF decoded.ok
           THEN /\ rlp_bytes' = decoded.v
                /\ insp_pc' = "typed"
                /\ report' = report
           ELSE /\ rlp_bytes' = rlp_bytes
                /\ insp_pc' = "done"
                /\ report' = InspectorFailed(decoded.err)
    /\ UNCHANGED <<attempts, signer_vars, broadcaster_vars, qr_vars>>

\* The typed attempt going on to the next attempt whatever its result.
InspectorTyped_fallthrough ==
    /\ insp_pc = "typed"
    /\ attempts' = Append(attempts, "typed")
    /\ report' = report
    /\ insp_pc' = "legacy_signed"
    /\ UNCHANGED <<rlp_bytes, signer_vars, broadcaster_vars, qr_vars>>

\* if let Ok(tx) = rlp::decode::<TypedTransaction>(&rlp_bytes): print the
\* transaction and return Ok(()).
InspectorTyped ==
    /\ insp_pc = "typed"
    /\ attempts' = Append(attempts, "typed")
    /\ LET tx == TypedDecode(rlp_bytes)
       IN  IF Panicked(tx)
           THEN /\ report' = InspectorPanicked(tx.err)
                /\ insp_pc' = "done"
           ELSE IF tx.ok
           THEN /\ report' = [exit |-> "ok", kind |-> "typed", tx |-> tx.v]
                /\ insp_pc' = "done"
           ELSE /\ report' = report
                /\ insp_pc' = "legacy_signed"
    /\ UNCHANGED <<rlp_bytes, signer_vars, broadcaster_vars, qr_vars>>

\* if let Ok(signed_tx) = rlp::decode::<Transaction>(&rlp_bytes): print the
\* fields and the signature, then the recovered sender or the failure to
\* recover it, and return Ok(()).
InspectorLegacySigned ==
    /\ insp_pc = "legacy_signed"
    /\ attempts' = Append(attempts, "legacy_signed")
    /\ LET signed == TransactionDecode(rlp_bytes)
       IN  IF Panicked(signed)
           THEN /\ report' = InspectorPanicked(signed.err)
                /\ insp_pc' = "done"
           ELSE IF signed.ok
           THEN /\ \E recovered \in SenderOutcomes(signed.v) :
                       report' = IF Panicked(recovered)
                                 THEN InspectorPanicked(recovered.err)
                                 ELSE [exit |-> "ok", kind |-> "legacy_signed",
                                       tx |-> signed.v, sender |-> recovered]
                /\ insp_pc' = "done"
           ELSE /\ report' = report
                /\ insp_pc' = "exhausted"
    /\ UNCHANGED <<rlp_bytes, signer_vars, broadcaster_vars, qr_vars>>

\* println!("Failed to decode transaction as typed or legacy."); Ok(())
InspectorExhausted ==
    /\ insp_pc = "exhausted"
    /\ report' = [exit |-> "ok", kind |-> "exhausted"]
    /\ insp_pc' = "done"
    /\ UNCHANGED <<rlp_bytes, attempts, signer_vars, broadcaster_vars, qr_vars>>

(***************************************************************************)
(* The files tx_inspector is run on: what tx_signer and tx_builder write   *)
(* for an intent, and other texts.                                         *)
(***************************************************************************)
\* The signature tx_signer makes for the parsed value u with key k.
SignatureOf(u, k) ==
    CHOOSE r_ \in
        {[v |-> to_eip155_v(raw.recid, unsigned_to_typed(u).tx.chain_id).wrapped,
          r |-> raw.r, s |-> raw.s, recid |-> raw.recid]
             : raw \in {SignHash(Keccak256(BuildIntent(u)), k)}} : TRUE

\* The encoded items of the signed transaction of intent f under key k, one
\* by one.
SignedItems(f, k) ==
    CHOOSE r_ \in
        {IF f.tag = "Legacy"
         THEN SubSeq(CanonItems(f), 1, 6)
                  \o <<EncodeValue(StripZeros(sg.v)), EncodeValue(StripZeros(sg.r)),
                       EncodeValue(StripZeros(sg.s))>>
         ELSE CanonItems(f)
                  \o <<EncodeValue(StripZeros(U64Of(sg.recid))),
                       EncodeValue(StripZeros(sg.r)), EncodeValue(StripZeros(sg.s))>>
             : sg \in {SignatureOf(f, k)}} : TRUE

\* Signed transactions that no run of tx_signer wrote: a zero r or s, a v
\* that is no recovery id, a chain id of more than 64 bits, no recipient, a
\* list as recipient, missing items, another type byte.
SignedShapesOf(f, k) ==
    LET pre == CanonPrefix(f)
    IN  UNION
            {{Shape(pre, "list", ReplaceAt(items, i, a), TRUE, <<>>, "plain")
                  : i \in {Len(items) - 2, Len(items) - 1, Len(items)},
                    a \in {<<128>>, <<5>>, <<27>>}}
             \cup {Shape(pre, "list", ReplaceAt(items, 1, a), TRUE, <<>>, "plain")
                  : a \in {EncodeValue(StripZeros(TwoTo64)), EncodeValue(TwoTo63)}}
             \cup {Shape(pre, "list",
                         ReplaceAt(items, IF f.tag = "Legacy" THEN 4 ELSE 6, a),
                         TRUE, <<>>, "plain")
                  : a \in {<<128>>, <<192>>}}
             \cup {Shape(pre, "list", Take(items, m), TRUE, <<>>, "plain")
                  : m \in {0, 5, 6, 8, Len(items) - 1}}
             \cup {Shape(p, "list", items, TRUE, <<>>, "plain")
                  : p \in {<<3>>, <<127>>}}
             \cup {Shape(pre, "list", items, TRUE, <<>>, t)
                  : t \in {"0x", "newline", "spaced", "odd", "badchar"}}
                 : items \in {SignedItems(f, k)}}

\* The intents whose signed and unsigned files are inspected.
InspectedIntents == LegacyBases \cup Eip1559Bases

\* An input of the inspector: the text of the file and where it comes from
\* (the intent and key behind a file of the toolkit, the shape of another).
\* Every explored file holds a list, with or without bytes around it.
InspectorInputs ==
    {[intent |-> f, key |-> k, shape |-> NoShape,
      text |-> HexEncode(SignedBytesOf(f, k))]
         : f \in InspectedIntents, k \in 1..NumKeys}
        \cup {[intent |-> f, key |-> 0, shape |-> NoShape,
               text |-> HexEncode(BuildIntent(f))] : f \in InspectedIntents}
        \cup {[intent |-> NoIntent, key |-> 0, shape |-> sh, text |-> ShapeText(sh)]
                 : sh \in {x \in Supplied : x.top = "list"}
                              \cup SignedShapesOf(LegacyBaseA, 1)
                              \cup SignedShapesOf(Eip1559BaseB, 1)}

InspectorInit ==
    /\ \E input \in InspectorInputs :
           /\ intent = input.intent
           /\ key = input.key
           /\ shape = input.shape
           /\ file = input.text
    /\ pc = "start"
    /\ unsigned_bytes = <<>>
    /\ utx = NotRun
    /\ typed = NoTyped
    /\ signing_payload = <<>>
    /\ sig = NoSig
    /\ signed_raw = <<>>
    /\ output = <<>>
    /\ insp_pc = "start"
    /\ rlp_bytes = <<>>
    /\ attempts = <<>>
    /\ report = NotRun
    /\ BroadcasterIdle
    /\ QrIdle

InspectorNext ==
    \/ InspectorRead
    \/ InspectorTyped
    \/ InspectorLegacySigned
    \/ InspectorExhausted

InspectorSpec == InspectorInit /\ [][InspectorNext]_vars

(***************************************************************************)
(* Properties of tx_inspector.                                             *)
(***************************************************************************)
\* The typed attempt on the bytes read returned an error.
TypedFailed == ~TypedDecode(rlp_bytes).ok /\ ~Panicked(TypedDecode(rlp_bytes))

\* The attempt as a signed transaction returned an error.
SignedFailed ==
    ~TransactionDecode(rlp_bytes).ok /\ ~Panicked(TransactionDecode(rlp_bytes))

\* main has returned after trying at least one decoding.
InspectorDecided == insp_pc = "done" /\ attempts # <<>>

\* C11: the inspector's decode is an ordered chain in which the first
\* success wins.  The typed decoding is the first one tried and nothing is
\* tried before it; the decoding as a signed (legacy) transaction is tried
\* exactly when the typed one failed, and never after a typed success; and
\* the run ends as exhausted ("Failed to decode transaction as typed or
\* legacy.") exactly when both failed.
C11_AttemptChain ==
    /\ attempts \in {<<>>, <<"typed">>, <<"typed", "legacy_signed">>}
    /\ insp_pc \in {"start", "typed"} => attempts = <<>>
    /\ Len(attempts) = 2 => TypedFailed
    /\ insp_pc \in {"legacy_signed", "exhausted"} => TypedFailed
    /\ InspectorDecided =>
           /\ Len(attempts) = 2 <=> TypedFailed
           /\ report.kind = "typed" => attempts = <<"typed">>
           /\ report.kind = "exhausted" <=> (TypedFailed /\ SignedFailed)

\* Both decodings were tried, in order, both failed, and the run ended as
\* exhausted.
C11_Witness ==
    /\ insp_pc = "done"
    /\ attempts = <<"typed", "legacy_signed">>
    /\ TypedFailed /\ SignedFailed
    /\ report = [exit |-> "ok", kind |-> "exhausted"]

\* C12: for the signed transaction tx_signer writes for a Legacy intent with
\* key K, the inspector ends in the signed-legacy interpretation and the
\* sender it recovers is the address of K.
C12_LegacySignedSender ==
    (insp_pc = "done" /\ intent.tag = "Legacy" /\ key # 0) =>
        /\ report.exit = "ok"
        /\ report.kind = "legacy_signed"
        /\ report.sender = Ok(AddressOf(key))

\* The bytes read decode as a signed legacy transaction whose sender cannot
\* be recovered.
UnrecoverableLegacy ==
    /\ IsList(rlp_bytes)
    /\ TransactionDecode(rlp_bytes).ok
    /\ \A recovered \in SenderOutcomes(TransactionDecode(rlp_bytes).v) :
           ~recovered.ok /\ ~Panicked(recovered)

\* C13: when the bytes decode as a signed legacy transaction whose sender
\* cannot be recovered, the inspector still ends with a successful
\* signed-legacy result that carries all the decoded fields, its sender
\* being the failure to recover; never with an error, a panic or the
\* exhausted outcome.
C13_RecoveryFailureKeepsDecode ==
    (insp_pc = "done" /\ attempts # <<>> /\ UnrecoverableLegacy) =>
        /\ report.exit = "ok"
        /\ report.kind = "legacy_signed"
        /\ report.tx = TransactionDecode(rlp_bytes).v
        /\ ~report.sender.ok

(***************************************************************************)
(* tx_broadcaster: main and broadcast_transaction.                         *)
(***************************************************************************)
\* The strings a node's reply may carry as a member.
HashTexts == {<<"0", "x", "a", "b">>, <<>>}

\* A member of the reply's JSON object: absent, or a value of some JSON kind.
MemberValues ==
    {[kind |-> k, text |-> <<>>] : k \in {"absent", "null", "number", "object"}}
        \cup {[kind |-> "string", text |-> t] : t \in HashTexts}

\* The bodies of a reply: text that is no JSON, a JSON value that is no
\* object, an object with any "error" and "result" members.
Bodies ==
    {[json |-> FALSE, object |-> FALSE, error |-> [kind |-> "absent", text |-> <<>>],
      result |-> [kind |-> "absent", text |-> <<>>]],
     [json |-> TRUE, object |-> FALSE, error |-> [kind |-> "absent", text |-> <<>>],
      result |-> [kind |-> "absent", text |-> <<>>]]}
        \cup {[json |-> TRUE, object |-> TRUE, error |-> e, result |-> r]
                 : e \in MemberValues, r \in MemberValues}

\* What comes back from the POST: no reply at all (refused, timed out), or
\* a reply with an HTTP status and a body.
Replies ==
    {[arrived |-> FALSE, status |-> 0, body |-> CHOOSE b \in Bodies : ~b.json]}
        \cup {[arrived |-> TRUE, status |-> st, body |-> b]
                 : st \in {200, 500}, b \in Bodies}

\* serde_json::Value::get: the member of an object, None for a missing
\* member and for a value that is no object.
Get(body, member) ==
    IF body.object /\ body[member].kind # "absent" THEN Some(body[member]) ELSE None

\* The JSON-RPC request of broadcast_transaction.
RequestOf(bytes) ==
    [jsonrpc |-> "2.0", method |-> "eth_sendRawTransaction",
     params |-> << <<"0", "x">> \o HexEncode(bytes) >>, id |-> 1]

Classify_result_first(body) ==
    IF Get(body, "result") # None /\ Get(body, "result")[1].kind = "string"
    THEN Ok(Get(body, "result")[1].text)
    ELSE IF Get(body, "error") # None
    THEN Err("Error broadcasting transaction")
    ELSE Err("Failed to get transaction hash")

\* The classification of a parsed reply.
Classify(body) ==
    IF Get(body, "error") # None
    THEN Err("Error broadcasting transaction")
    ELSE IF Get(body, "result") # None /\ Get(body, "result")[1].kind = "string"
    THEN Ok(Get(body, "result")[1].text)
    ELSE Err("Failed to get transaction hash")

\* The bytes tx_broadcaster reads from a text: hex::decode of the trimmed
\* text, no prefix removed.
BroadcasterReadHex(text) == HexDecode(Trim(text))

\* main reads the file and decodes its trimmed text.
BroadcasterRead ==
    /\ bc_pc = "start"
    /\ LET decoded == BroadcasterReadHex(file)
       IN  IF decoded.ok
           THEN /\ signed_tx' = decoded.v
                /\ bc_pc' = "send"
                /\ UNCHANGED bc_result
           ELSE /\ bc_result' = Err(decoded.err)
                /\ bc_pc' = "done"
                /\ UNCHANGED signed_tx
    /\ UNCHANGED <<request, response>>
    /\ UNCHANGED <<signer_vars, inspector_vars, qr_vars>>

\* broadcast_transaction builds the request and posts it.
BroadcasterSend ==
    /\ bc_pc = "send"
    /\ request' = RequestOf(signed_tx)
    /\ bc_pc' = "sent"
    /\ UNCHANGED <<signed_tx, response, bc_result>>
    /\ UNCHANGED <<signer_vars, inspector_vars, qr_vars>>

\* The two awaits return: the POST fails, or the body is no JSON, or the
\* parsed body is classified.
BroadcasterReceive ==
    /\ bc_pc = "sent"
    /\ \E reply \in Replies :
           /\ response' = reply
           /\ bc_result' = IF ~reply.arrived THEN Err("send")
                           ELSE IF ~reply.body.json THEN Err("json")
                           ELSE Classify(reply.body)
    /\ bc_pc' = "done"
    /\ UNCHANGED <<signed_tx, request>>
    /\ UNCHANGED <<signer_vars, inspector_vars, qr_vars>>

\* The files given to tx_broadcaster: the outputs of tx_signer, and such
\* outputs with a prefix, with surrounding or inner whitespace, cut or
\* damaged.
BroadcasterInputs ==
    {i \in InspectorInputs :
        \/ i.key # 0
        \/ i.intent = NoIntent /\ i.shape.text # "plain"}

BroadcasterInit ==
    /\ \E input \in BroadcasterInputs :
           /\ intent = input.intent
           /\ key = input.key
           /\ shape = input.shape
           /\ file = input.text
    /\ pc = "start"
    /\ unsigned_bytes = <<>>
    /\ utx = NotRun
    /\ typed = NoTyped
    /\ signing_payload = <<>>
    /\ sig = NoSig
    /\ signed_raw = <<>>
    /\ output = <<>>
    /\ InspectorIdle
    /\ bc_pc = "start"
    /\ signed_tx = <<>>
    /\ request = NotRun
    /\ response = NotRun
    /\ bc_result = NotRun
    /\ QrIdle

BroadcasterNext ==
    \/ BroadcasterRead
    \/ BroadcasterSend
    \/ BroadcasterReceive

BroadcasterSpec == BroadcasterInit /\ [][BroadcasterNext]_vars

\* A reply arrived and its body parsed as JSON.
ParsedReply == bc_pc = "done" /\ response # NotRun /\ response.arrived /\ response.body.json

\* The parsed reply has a member of that name.
HasMember(member) == response.body.object /\ response.body[member].kind # "absent"

\* C14: broadcast_transaction sends the method eth_sendRawTransaction with,
\* as its first parameter, "0x" followed by the hex of the raw signed bytes,
\* and classifies the parsed reply by its body alone, whatever the HTTP
\* status: with an "error" member it fails, even when a "result" is there
\* too; without one it succeeds exactly when "result" is there and is a
\* string, and then returns that string; with neither it fails.
C14_Classification ==
    /\ bc_pc \in {"sent", "done"} /\ request # NotRun =>
           /\ request.method = "eth_sendRawTransaction"
           /\ request.params[1] = <<"0", "x">> \o HexEncode(signed_tx)
           /\ HexDecode(Drop(request.params[1], 2)) = Ok(signed_tx)
    /\ ParsedReply =>
           /\ HasMember("error") => ~bc_result.ok
           /\ ~HasMember("error") =>
                  (bc_result.ok <=> (HasMember("result")
                                        /\ response.body.result.kind = "string"))
           /\ bc_result.ok => bc_result.v = response.body.result.text

\* A reply with status 200 that carries both an error and a string result
\* was classified as a failure.
C14_Witness ==
    /\ ParsedReply
    /\ response.status = 200
    /\ HasMember("error")
    /\ response.body.result.kind = "string"
    /\ ~bc_result.ok
    /\ signed_tx # <<>>

(***************************************************************************)
(* The hex file boundary of the three readers.                             *)
(***************************************************************************)
\* The bytes tx_signer reads from a text: trimmed, every leading "0x"
\* removed, then hex::decode.
SignerReadHex(text) == HexDecode(TrimStartMatches0x(Trim(text)))

\* C15: one "0x" convention holds at every hex file boundary: the text of a
\* file is either accepted by tx_signer, tx_inspector and tx_broadcaster
\* alike, and read as the same bytes, or rejected by all three.
C15_OnePrefixConvention ==
    LET s == SignerReadHex(file)
        i == InspectorReadHex(file)
        b == BroadcasterReadHex(file)
    IN  insp_pc # "start" =>
            \/ s.ok /\ i.ok /\ b.ok /\ s.v = i.v /\ i.v = b.v
            \/ ~s.ok /\ ~i.ok /\ ~b.ok

(***************************************************************************)
(* tx_signer: decode_qr_from_file.                                         *)
(***************************************************************************)
\* The most codes (quircs) or grids (rqrr) found in one image.
MaxCodes == 2

\* The texts a QR code may hold.
QrTexts == {<<"e", "c">>, <<"0", "2">>}

\* What one code found by quircs gives: identify failed, decode failed, a
\* payload that is no UTF-8, or a text.
QuircsOutcomes ==
    {[kind |-> k, text |-> <<>>] : k \in {"identify_err", "decode_err", "not_utf8"}}
        \cup {[kind |-> "text", text |-> t] : t \in QrTexts}

\* What one grid found by rqrr gives: decode failed, or a text.
RqrrOutcomes ==
    {[kind |-> "decode_err", text |-> <<>>]}
        \cup {[kind |-> "text", text |-> t] : t \in QrTexts}

OutcomeSeqs(S) == UNION {[1..m -> S] : m \in 0..MaxCodes}

\* The files given as --input-qr: one that image::open cannot open or
\* decode, and images, each with what the two libraries find in it.
Images ==
    {[opens |-> FALSE, quircs |-> <<>>, rqrr |-> <<>>]}
        \cup {[opens |-> TRUE, quircs |-> q, rqrr |-> r]
                 : q \in OutcomeSeqs(QuircsOutcomes), r \in OutcomeSeqs(RqrrOutcomes)}

FirstPayload_last(outcomes) ==
    LET texts == SelectSeq(outcomes, LAMBDA o : o.kind = "text")
    IN  IF texts = <<>> THEN None ELSE Some(texts[Len(texts)].text)

\* The loops of decode_qr_from_file: the text of the first code in order
\* that gives one, None when the loop ends without a return.
FirstPayload(outcomes) ==
    LET texts == SelectSeq(outcomes, LAMBDA o : o.kind = "text")
    IN  IF texts = <<>> THEN None ELSE Some(Head(texts).text)

\* image::open(path)?.to_luma8()
QrOpen ==
    /\ qr_pc = "start"
    /\ IF image.opens
       THEN /\ qr_pc' = "quircs"
            /\ UNCHANGED qr_result
       ELSE /\ qr_pc' = "done"
            /\ qr_result' = Err("image")
    /\ UNCHANGED <<image, strategies>>
    /\ UNCHANGED <<signer_vars, inspector_vars, broadcaster_vars>>

\* The loop over the codes quircs identifies.
QrQuircs ==
    /\ qr_pc = "quircs"
    /\ strategies' = Append(strategies, "quircs")
    /\ LET found == FirstPayload(image.quircs)
       IN  IF found # None
           THEN /\ qr_result' = Ok(found[1])
                /\ qr_pc' = "done"
           ELSE /\ qr_pc' = "rqrr"
                /\ UNCHANGED qr_result
    /\ UNCHANGED image
    /\ UNCHANGED <<signer_vars, inspector_vars, broadcaster_vars>>

\* The loop over the grids rqrr detects, and the final error.
QrRqrr ==
    /\ qr_pc = "rqrr"
    /\ strategies' = Append(strategies, "rqrr")
    /\ LET found == FirstPayload(image.rqrr)
       IN  qr_result' = IF found # None THEN Ok(found[1])
                        ELSE Err("No QR code could be decoded by quircs or rqrr")
    /\ qr_pc' = "done"
    /\ UNCHANGED image
    /\ UNCHANGED <<signer_vars, inspector_vars, broadcaster_vars>>

QrInit ==
    /\ SignerIdle
    /\ file = <<>>
    /\ InspectorIdle
    /\ BroadcasterIdle
    /\ qr_pc = "start"
    /\ image \in Images
    /\ strategies = <<>>
    /\ qr_result = NotRun

QrNext ==
    \/ QrOpen
    \/ QrQuircs
    \/ QrRqrr

QrSpec == QrInit /\ [][QrNext]_vars

\* Code number i of the sequence gives a text and none before it does.
FirstTextAt(outcomes, i) ==
    /\ i \in 1..Len(outcomes)
    /\ outcomes[i].kind = "text"
    /\ \A j \in 1..(i - 1) : outcomes[j].kind # "text"

\* No code of the sequence gives a text.
NoText(outcomes) == \A i \in 1..Len(outcomes) : outcomes[i].kind # "text"

\* The order of the two strategies in a finished call: quircs first and its
\* first text returned without rqrr; rqrr only after quircs gave nothing.
QrOrder ==
    /\ strategies \in {<<>>, <<"quircs">>, <<"quircs", "rqrr">>}
    /\ qr_pc \in {"start", "quircs"} => strategies = <<>>
    /\ qr_pc = "rqrr" => strategies = <<"quircs">> /\ NoText(image.quircs)
    /\ qr_pc = "done" /\ strategies # <<>> =>
           /\ \A i \in 1..Len(image.quircs) :
                  FirstTextAt(image.quircs, i) =>
                      /\ qr_result = Ok(image.quircs[i].text)
                      /\ strategies = <<"quircs">>
           /\ strategies = <<"quircs", "rqrr">> <=> NoText(image.quircs)
           /\ \A i \in 1..Len(image.rqrr) :
                  (NoText(image.quircs) /\ FirstTextAt(image.rqrr, i)) =>
                      qr_result = Ok(image.rqrr[i].text)
           /\ ~qr_result.ok <=> (NoText(image.quircs) /\ NoText(image.rqrr))

\* C16 as stated: the strategies run in fixed priority order, and a finished
\* call returns an error only after both quircs and rqrr were tried and
\* both failed.
C16_ErrorOnlyAfterBoth ==
    /\ QrOrder
    /\ qr_pc = "done" /\ ~qr_result.ok =>
           /\ strategies = <<"quircs", "rqrr">>
           /\ NoText(image.quircs) /\ NoText(image.rqrr)

\* C16, amended: once image::open has opened the file, the strategies run
\* in fixed priority order (quircs first, its first UTF-8 text returned
\* without rqrr; rqrr only when quircs gave nothing) and an error is
\* returned only after both were tried and both failed; a file image::open
\* cannot open is an error before either strategy is tried.
C16_StrategyOrder ==
    /\ QrOrder
    /\ qr_pc = "done" /\ image.opens =>
           /\ strategies # <<>>
           /\ ~qr_result.ok => /\ strategies = <<"quircs", "rqrr">>
                               /\ NoText(image.quircs) /\ NoText(image.rqrr)
    /\ qr_pc = "done" /\ ~image.opens =>
           /\ strategies = <<>>
           /\ ~qr_result.ok

\* quircs found two codes with different texts after one that would not
\* decode, and the call returned the first text without trying rqrr, which
\* would have given a text too.
C16_Witness ==
    /\ qr_pc = "done"
    /\ image.opens
    /\ Len(image.quircs) = 2
    /\ image.quircs[1].kind = "text" /\ image.quircs[2].kind = "text"
    /\ image.quircs[1].text # image.quircs[2].text
    /\ \E i \in 1..Len(image.rqrr) : image.rqrr[i].kind = "text"
    /\ strategies = <<"quircs">>
    /\ qr_result = Ok(image.quircs[1].text)

(***************************************************************************)
(* Chain ids of any width, and canonical input.                            *)
(***************************************************************************)
\* C17: for every value parse_unsigned returned, unsigned_to_typed
\* completes with exactly the parsed chain id, whatever its width up to 256
\* bits (no truncation, no abort), and the v computed afterwards for a
\* Legacy transaction is recoveryId + chainId*2 + 35 without overflow or
\* wrap.
C17_ChainIdAnyWidth ==
    (utx.ok /\ pc \in {"typed", "signed", "written", "panicked"}) =>
        /\ pc # "panicked"
        /\ StripZeros(typed.tx.chain_id) = StripZeros(utx.v.chain_id)
        /\ (pc \in {"signed", "written"} /\ typed.tx.tag = "Legacy") =>
               StripZeros(sig.v)
                   = BigAdd(BigAdd(StripZeros(utx.v.chain_id),
                                   StripZeros(utx.v.chain_id)),
                            NatToBE(sig.recid + 35))

====
